---------------------------- MODULE Spec2Model ----------------------------
(***************************************************************************)
(* Network discovery subsystem of the inventory server (routes file,       *)
(* src/unnamed/part_000): the scan-initiation endpoint                     *)
(* POST /api/network-discovery/scan and the background scanner             *)
(* startNetworkScan with its helpers pingHost, checkTcpConnection,         *)
(* gatherHostInfo, scanPorts, detectOperatingSystem, getBanner and         *)
(* getHttpBanner.                                                          *)
(*                                                                         *)
(* A JavaScript string is a sequence of one-character strings, so that     *)
(* split, Number, parseInt, number-to-string concatenation and the         *)
(* validation regex are computed on characters.  One action is one turn of *)
(* the event loop: a handler runs from the event that wakes it to its next *)
(* await on an external event (socket, DNS, storage, timer).               *)
(***************************************************************************)
EXTENDS Integers, Sequences, FiniteSets, TLC

VARIABLES
    runs,      \* runs[r]: the locals of one activation of startNetworkScan
    store,     \* the discovered-hosts store behind storage.createDiscoveredHost
    lastReq    \* the last scan-initiation request and the handler's answer

vars == <<runs, store, lastReq>>

---------------------------------------------------------------------------
(* Strings *)

Min(a, b) == IF a <= b THEN a ELSE b

DigitChars == <<"0", "1", "2", "3", "4", "5", "6", "7", "8", "9">>

IsDigit(c) == \E k \in 1..10 : DigitChars[k] = c

DigitVal(c) == (CHOOSE k \in 1..10 : DigitChars[k] = c) - 1

\* number -> string, as in JavaScript's  '' + n  for a non-negative integer
RECURSIVE ToStr(_)
ToStr(n) == IF n < 10 THEN <<DigitChars[n + 1]>>
            ELSE ToStr(n \div 10) \o <<DigitChars[(n % 10) + 1]>>

\* Number(s) / parseInt(s) on a non-empty string of decimal digits
RECURSIVE ParseDigits(_)
ParseDigits(s) == IF Len(s) = 0 THEN 0
                  ELSE 10 * ParseDigits(SubSeq(s, 1, Len(s) - 1)) + DigitVal(s[Len(s)])

\* String.prototype.includes for a one-character needle
Includes(s, c) == \E k \in 1..Len(s) : s[k] = c

\* String.prototype.split for a one-character separator
RECURSIVE Split(_, _)
Split(s, sep) ==
    IF ~Includes(s, sep) THEN <<s>>
    ELSE LET k == CHOOSE j \in 1..Len(s) :
                       s[j] = sep /\ \A m \in 1..(j - 1) : s[m] # sep
         IN  <<SubSeq(s, 1, k - 1)>> \o Split(SubSeq(s, k + 1, Len(s)), sep)

\* s.replace(/\./g, '-')
ReplaceDots(s) == [k \in 1..Len(s) |-> IF s[k] = "." THEN "-" ELSE s[k]]

\* the absent value of a request field (undefined) and JavaScript's null
Absent == <<"undefined">>
Null == <<"null">>

\* JavaScript truthiness of a string-or-absent value
Falsy(s) == s = Absent \/ s = Null \/ s = <<>>

\* a dotted quad and a CIDR range written out as strings
Quad(a, b, c, d) ==
    ToStr(a) \o <<".">> \o ToStr(b) \o <<".">> \o ToStr(c) \o <<".">> \o ToStr(d)

WithPrefix(ip, p) == ip \o <<"/">> \o ToStr(p)

---------------------------------------------------------------------------
(* Validation of the request: lines 3131-3139 *)

\* [0-9]{1,3}
DigitRun(s) == Len(s) \in 1..3 /\ \A k \in 1..Len(s) : IsDigit(s[k])

\* ([0-9]{1,3}\.){3}[0-9]{1,3}: d1, d2, d3 are the places of the three dots
MatchQuad(s) ==
    \E d1 \in 2..Min(4, Len(s)) :
        /\ s[d1] = "."
        /\ DigitRun(SubSeq(s, 1, d1 - 1))
        /\ \E d2 \in (d1 + 2)..Min(d1 + 4, Len(s)) :
              /\ s[d2] = "."
              /\ DigitRun(SubSeq(s, d1 + 1, d2 - 1))
              /\ \E d3 \in (d2 + 2)..Min(d2 + 4, Len(s)) :
                    /\ s[d3] = "."
                    /\ DigitRun(SubSeq(s, d2 + 1, d3 - 1))
                    /\ DigitRun(SubSeq(s, d3 + 1, Len(s)))

\* [0-9]|[1-2][0-9]|3[0-2]
MatchPrefixLen(t) ==
    \/ Len(t) = 1 /\ IsDigit(t[1])
    \/ Len(t) = 2 /\ t[1] \in {"1", "2"} /\ IsDigit(t[2])
    \/ Len(t) = 2 /\ t[1] = "3" /\ t[2] \in {"0", "1", "2"}

\* cidrRegex.test(ipRange) with
\* cidrRegex = /^([0-9]{1,3}\.){3}[0-9]{1,3}(\/([0-9]|[1-2][0-9]|3[0-2]))?$/
CidrRegexTest(s) ==
    \/ MatchQuad(s)
    \/ \E k \in 1..Len(s) :
          /\ s[k] = "/"
          /\ MatchQuad(SubSeq(s, 1, k - 1))
          /\ MatchPrefixLen(SubSeq(s, k + 1, Len(s)))

MsgRequired == "IP range is required"
MsgInvalid == "Invalid IP range format. Use CIDR notation (e.g., 192.168.1.0/24)"
MsgInitiated == "Real network scan initiated. This may take several minutes to complete."

\* faulty variant: the format check placed before the presence check
Validate_FormatFirst(ipRange) ==
    IF ~CidrRegexTest(ipRange) THEN [status |-> 400, message |-> MsgInvalid]
    ELSE IF Falsy(ipRange) THEN [status |-> 400, message |-> MsgRequired]
    ELSE [status |-> 200, message |-> MsgInitiated]

\* the two early returns of the handler, else the acknowledgment it ends with
Validate(ipRange) ==
    IF Falsy(ipRange) THEN [status |-> 400, message |-> MsgRequired]
    ELSE IF ~CidrRegexTest(ipRange) THEN [status |-> 400, message |-> MsgInvalid]
    ELSE [status |-> 200, message |-> MsgInitiated]

---------------------------------------------------------------------------
(* Range expansion: lines 4231-4272 *)

RECURSIVE Pow2(_)
Pow2(n) == IF n = 0 THEN 1 ELSE 2 * Pow2(n - 1)

LargeSubnetLimit == 50

\* ipParts[0] + '.' + ipParts[1] + '.' + ipParts[2] + '.'
NetworkAddr(ipParts) ==
    ToStr(ipParts[1]) \o <<".">> \o ToStr(ipParts[2]) \o <<".">> \o ToStr(ipParts[3]) \o <<".">>

\* for (let i = lo; i <= hi; i++) ipsToScan.push(networkAddr + i)
PushRange(networkAddr, lo, hi) ==
    IF hi < lo THEN <<>>
    ELSE [k \in 1..(hi - lo + 1) |-> networkAddr \o ToStr(lo + k - 1)]

\* faulty variant: the cap on large subnets is off by one
LargeSubnetIps_OffByOne(ipParts) == PushRange(NetworkAddr(ipParts), 1, LargeSubnetLimit + 1)

\* prefix 0..23: the first 50 addresses of the base IP's /24
LargeSubnetIps(ipParts) == PushRange(NetworkAddr(ipParts), 1, LargeSubnetLimit)

\* faulty variant: the last octet is not held at 254
LastOctetIps_Unclamped(ipParts, subnetSize) ==
    LET networkAddr == NetworkAddr(ipParts)
        hostBits == 32 - subnetSize
        hostsInSubnet == Pow2(hostBits)
    IN  IF subnetSize = 31
        THEN <<networkAddr \o ToStr(ipParts[4]), networkAddr \o ToStr(ipParts[4] + 1)>>
        ELSE LET startHost == IF hostBits = 8 THEN 1 ELSE ipParts[4]
                 maxHosts == IF hostBits = 8 THEN 254
                             ELSE ipParts[4] + hostsInSubnet - 1
             IN  PushRange(networkAddr, startHost, maxHosts)

\* faulty variant: the pair of a /31 is pushed in the other order
LastOctetIps_PairSwapped(ipParts, subnetSize) ==
    LET networkAddr == NetworkAddr(ipParts)
        hostBits == 32 - subnetSize
        hostsInSubnet == Pow2(hostBits)
    IN  IF subnetSize = 31
        THEN <<networkAddr \o ToStr(ipParts[4] + 1), networkAddr \o ToStr(ipParts[4])>>
        ELSE LET startHost == IF hostBits = 8 THEN 1 ELSE ipParts[4]
                 maxHosts == IF hostBits = 8 THEN 254
                             ELSE Min(ipParts[4] + hostsInSubnet - 1, 254)
             IN  PushRange(networkAddr, startHost, maxHosts)

\* prefix 24..31
LastOctetIps(ipParts, subnetSize) ==
    LET networkAddr == NetworkAddr(ipParts)
        hostBits == 32 - subnetSize
        hostsInSubnet == Pow2(hostBits)
    IN  IF subnetSize = 31
        THEN <<networkAddr \o ToStr(ipParts[4]), networkAddr \o ToStr(ipParts[4] + 1)>>
        ELSE LET startHost == IF hostBits = 8 THEN 1 ELSE ipParts[4]
                 maxHosts == IF hostBits = 8 THEN 254
                             ELSE Min(ipParts[4] + hostsInSubnet - 1, 254)
             IN  PushRange(networkAddr, startHost, maxHosts)

\* faulty variant: an address without '/' is expanded like a large subnet
ExpandRange_BareAsSubnet(ipRange) ==
    IF Includes(ipRange, "/")
    THEN LET halves == Split(ipRange, "/")
             baseIP == halves[1]
             subnet == halves[2]
             octets == Split(baseIP, ".")
             ipParts == [k \in 1..Len(octets) |-> ParseDigits(octets[k])]
             subnetSize == ParseDigits(subnet)
         IN  IF subnetSize = 32 THEN <<baseIP>>
             ELSE IF subnetSize >= 24 THEN LastOctetIps(ipParts, subnetSize)
             ELSE LargeSubnetIps(ipParts)
    ELSE LargeSubnetIps([k \in 1..4 |-> ParseDigits(Split(ipRange, ".")[k])])

ExpandRange(ipRange) ==
    IF Includes(ipRange, "/")
    THEN LET halves == Split(ipRange, "/")
             baseIP == halves[1]
             subnet == halves[2]
             octets == Split(baseIP, ".")
             ipParts == [k \in 1..Len(octets) |-> ParseDigits(octets[k])]
             subnetSize == ParseDigits(subnet)
         IN  IF subnetSize = 32 THEN <<baseIP>>
             ELSE IF subnetSize >= 24 THEN LastOctetIps(ipParts, subnetSize)
             ELSE LargeSubnetIps(ipParts)
    ELSE <<ipRange>>

---------------------------------------------------------------------------
(* Fixed port lists *)

\* pingHost: commonPorts, line 4374
PingPorts == <<80, 443, 22, 3389, 21, 23, 25, 53, 135, 139, 445, 993, 995, 1433, 3306, 5432>>

\* scanPorts: commonPorts, line 4498
ScanPortList == <<21, 22, 23, 25, 53, 80, 110, 143, 443, 993, 995, 1433, 3389, 5432, 5985, 5986>>

SeqToSet(s) == {s[k] : k \in 1..Len(s)}

\* openPorts.sort((a, b) => a - b)
RECURSIVE SortAsc(_)
SortAsc(s) ==
    IF Len(s) <= 1 THEN s
    ELSE LET m == CHOOSE k \in 1..Len(s) : \A j \in 1..Len(s) : s[k] <= s[j]
             rest == [j \in 1..(Len(s) - 1) |-> IF j < m THEN s[j] ELSE s[j + 1]]
         IN  <<s[m]>> \o SortAsc(rest)

---------------------------------------------------------------------------
(* Banner text: only its length and the keywords it contains are observed  *)
(* (banner.length, banner.substring(0, 1024), banner.includes(keyword)).   *)

BannerCap == 1024

NoText == [null |-> TRUE, len |-> 0, has |-> {}]

Text(n, kws) == [null |-> FALSE, len |-> n, has |-> kws]

\* if (banner) ...: null and '' are falsy
Truthy(t) == ~t.null /\ t.len > 0

\* banner || null
OrNull(t) == IF Truthy(t) THEN t ELSE NoText

\* banner += data.toString()
Append2(t, chunk) == Text(t.len + chunk.len, t.has \cup chunk.has)

\* faulty variant: the whole accumulated text is returned
Substring1024_Whole(t) == t

\* banner.substring(0, 1024)
Substring1024(t) == Text(Min(t.len, BannerCap), t.has)

---------------------------------------------------------------------------
(* Events handed to broadcastUpdate, lines 4217-4220: the sink only logs,  *)
(* the model records each call in the run's event list.                    *)

\* the pairs (scannedHosts, ipsToScan.length), up to length 254, at which the
\* double-precision product (k / n) * 100 falls just below the exact integer
FloatShortfall ==
    {<<29, 50>>, <<29, 100>>, <<57, 100>>, <<58, 100>>, <<87, 150>>,
     <<58, 200>>, <<114, 200>>, <<116, 200>>, <<145, 250>>}

\* faulty variant: the percentage is rounded up
ProgressPercent_RoundedUp(k, n) == (100 * k + n - 1) \div n

\* Math.floor((scannedHosts / ipsToScan.length) * 100), line 4286
ProgressPercent(k, n) ==
    IF <<k, n>> \in FloatShortfall THEN ((100 * k) \div n) - 1 ELSE (100 * k) \div n

\* faulty variant: the 10% boundaries are not reported
ShouldBroadcast_NoTenth(scannedHosts, progress, i, n) ==
    scannedHosts % 5 = 0 \/ i = n - 1

\* line 4323
ShouldBroadcast(scannedHosts, progress, i, n) ==
    scannedHosts % 5 = 0 \/ progress % 10 = 0 \/ i = n - 1

\* lines 4324-4330
LoopProgressEvent(rec) ==
    [type |-> "scan_progress", progress |-> rec.progress,
     scannedHosts |-> rec.scannedHosts, discoveredHosts |-> rec.discoveredHosts,
     currentIp |-> rec.ip]

\* lines 4346-4352
FinalProgressEvent(rec) ==
    [type |-> "scan_progress", progress |-> 100,
     scannedHosts |-> rec.scannedHosts, discoveredHosts |-> rec.discoveredHosts,
     completed |-> TRUE]

\* lines 4354-4361
CompletedEvent(rec) ==
    [type |-> "scan_completed", hostsDiscovered |-> rec.discoveredHosts,
     totalScanned |-> rec.scannedHosts, ipRange |-> rec.ipRange]

Broadcast(rec, ev) == [rec EXCEPT !.events = Append(@, ev)]

---------------------------------------------------------------------------
(* The request body and scanDetails: lines 3117-3179 *)

NoOptions ==
    [useDNS |-> FALSE, hasDnsServer |-> FALSE, scanForUSB |-> FALSE,
     scanForSerialNumbers |-> FALSE, scanForHardwareDetails |-> FALSE,
     scanForInstalledSoftware |-> FALSE]

AllOptions ==
    [useDNS |-> TRUE, hasDnsServer |-> TRUE, scanForUSB |-> TRUE,
     scanForSerialNumbers |-> TRUE, scanForHardwareDetails |-> TRUE,
     scanForInstalledSoftware |-> TRUE]

Body(ipRange, opts) == [ipRange |-> ipRange, opts |-> opts]

\* lines 3156-3179; hasDnsServer stands for  primaryDNS || secondaryDNS
ScanDetails(body) ==
    [ipRange |-> body.ipRange,
     scanOptions |->
        [scanForUSB |-> body.opts.scanForUSB,
         scanForSerialNumbers |-> body.opts.scanForSerialNumbers,
         scanForHardwareDetails |-> body.opts.scanForHardwareDetails,
         scanForInstalledSoftware |-> body.opts.scanForInstalledSoftware,
         useDNS |-> body.opts.useDNS],
     dnsSettings |-> body.opts.useDNS /\ body.opts.hasDnsServer]

---------------------------------------------------------------------------
(* The locals of one activation of startNetworkScan and of the helpers it  *)
(* awaits.  pc names the await the activation is suspended at.             *)

NoSystemInfo ==
    [os |-> "Unknown", version |-> "Unknown", architecture |-> "Unknown",
     webServer |-> "absent", installedSoftware |-> "absent"]

NoHardware ==
    [manufacturer |-> "absent", model |-> "absent", usb |-> "absent",
     serialNumbers |-> "absent"]

\* gatherHostInfo, lines 4421-4426
NewHostInfo ==
    [hostname |-> Null, macAddress |-> Null, systemInfo |-> NoSystemInfo,
     hardwareDetails |-> NoHardware]

NoHostLocals ==
    [isAlive |-> FALSE, accepting |-> {}, portIdx |-> 0, pending |-> {},
     openPorts |-> <<>>, hostInfo |-> NewHostInfo, sock |-> "none",
     banner |-> Text(0, {}), chunks |-> 0, timerFired |-> FALSE,
     sshBanner |-> NoText,    \* line 4554: what getBanner resolved with
     httpPort |-> 0,          \* line 4572: the port given to getHttpBanner
     httpBanner |-> NoText,   \* line 4572: what getHttpBanner resolved with
     connectOrder |-> <<>>]   \* history: the ports of scanPorts as they connected

IdleRun ==
    [pc |-> "idle", ipRange |-> <<>>, scanDetails |-> ScanDetails(Body(<<>>, NoOptions)),
     ipsToScan |-> <<>>, i |-> 0, ip |-> <<>>,
     scannedHosts |-> 0, discoveredHosts |-> 0, progress |-> 0,
     host |-> NoHostLocals,
     events |-> <<>>,
     pingLog |-> <<>>,     \* history: what pingHost returned, per iteration
     saveLog |-> <<>>]     \* history: the calls of createDiscoveredHost

Has(ports, p) == \E k \in 1..Len(ports) : ports[k] = p

---------------------------------------------------------------------------
(* startNetworkScan after the host's try block: lines 4322-4361 *)

\* faulty variant: the summary event is sent after the error event
ScanFailed_ThenSummary(rec, message) ==
    [Broadcast(Broadcast(rec, [type |-> "scan_error", error |-> message]),
               CompletedEvent(rec))
        EXCEPT !.pc = "failed"]

\* lines 4363-4369: the outer catch, with error.message.  pingHost,
\* gatherHostInfo and the save catch their own errors and the per-host try
\* catches the rest, so the catch is entered only by an exception raised
\* outside the per-host try
ScanFailed(rec, message) ==
    [Broadcast(rec, [type |-> "scan_error", error |-> message]) EXCEPT !.pc = "failed"]

\* faulty variant: the summary event sent before the final progress event
FinishRun_SummaryFirst(rec) ==
    [Broadcast(Broadcast(rec, CompletedEvent(rec)), FinalProgressEvent(rec))
        EXCEPT !.pc = "completed"]

\* faulty variant: the summary event is sent twice
FinishRun_SummaryTwice(rec) ==
    [Broadcast(Broadcast(Broadcast(rec, FinalProgressEvent(rec)), CompletedEvent(rec)),
               CompletedEvent(rec))
        EXCEPT !.pc = "completed"]

\* lines 4343-4361: the loop is over
FinishRun(rec) ==
    [Broadcast(Broadcast(rec, FinalProgressEvent(rec)), CompletedEvent(rec))
        EXCEPT !.pc = "completed"]

\* faulty variant: the delay is also taken after the last candidate
AfterHost_DelayAfterLast(rec) ==
    LET n == Len(rec.ipsToScan)
        told == IF ShouldBroadcast(rec.scannedHosts, rec.progress, rec.i, n)
                THEN Broadcast(rec, LoopProgressEvent(rec))
                ELSE rec
        left == [told EXCEPT !.host = NoHostLocals]
    IN  [left EXCEPT !.pc = "delay"]

\* lines 4322-4341: the progress update, then the delay or the end of the loop
AfterHost(rec) ==
    LET n == Len(rec.ipsToScan)
        told == IF ShouldBroadcast(rec.scannedHosts, rec.progress, rec.i, n)
                THEN Broadcast(rec, LoopProgressEvent(rec))
                ELSE rec
        left == [told EXCEPT !.host = NoHostLocals]
    IN  IF rec.i < n - 1 THEN [left EXCEPT !.pc = "delay"] ELSE FinishRun(left)

SetLastSave(rec, result) ==
    [rec EXCEPT !.saveLog[Len(rec.saveLog)].result = result]

\* faulty variant: the rejection is not caught at the save and ends the run
SaveRejected_Abort(rec) == ScanFailed(SetLastSave(rec, "failed"), "rejected")

\* lines 4315-4317: the rejection is logged, the iteration goes on
SaveRejected(rec) == AfterHost(SetLastSave(rec, "failed"))

---------------------------------------------------------------------------
(* gatherHostInfo after detectOperatingSystem: lines 4451-4475, and the    *)
(* call of storage.createDiscoveredHost, lines 4300-4312                   *)

\* lines 4703-4705, 4713-4715, 4766-4768
AvailableChannel(openPorts) ==
    IF Has(openPorts, 161) THEN "via SNMP"
    ELSE IF Has(openPorts, 5985) THEN "via WMI"
    ELSE IF Has(openPorts, 22) THEN "via SSH"
    ELSE "not available"

OsIncludesWindows(os) == os = "Windows"

OsIncludesLinux(os) == os \in {"Linux/Unix", "Ubuntu Linux", "CentOS Linux", "Red Hat Linux"}

\* lines 4661-4695
GatherHardwareDetails(openPorts, systemInfo) ==
    LET wmi == OsIncludesWindows(systemInfo.os) /\ (Has(openPorts, 5985) \/ Has(openPorts, 5986))
        ssh == OsIncludesLinux(systemInfo.os) /\ Has(openPorts, 22)
        snmp == Has(openPorts, 161)
    IN  [NoHardware EXCEPT
            !.manufacturer =
                IF snmp THEN "Available via SNMP (community string required)"
                ELSE IF ssh THEN "Available via SSH (authentication required)"
                ELSE IF wmi THEN "Available via WMI (authentication required)"
                ELSE "Unknown",
            !.model =
                IF ssh THEN "Available via SSH (authentication required)"
                ELSE IF wmi THEN "Available via WMI (authentication required)"
                ELSE "Unknown"]

\* lines 4720-4772: the names detected from the ports, then the placeholder
ScanInstalledSoftware(openPorts) ==
    [names |->
        (IF Has(openPorts, 80) \/ Has(openPorts, 443) THEN <<"Web Server">> ELSE <<>>)
        \o (IF Has(openPorts, 22) THEN <<"SSH Server">> ELSE <<>>)
        \o (IF Has(openPorts, 3389) THEN <<"Remote Desktop Services">> ELSE <<>>)
        \o (IF Has(openPorts, 1433) THEN <<"Microsoft SQL Server">> ELSE <<>>)
        \o (IF Has(openPorts, 5432) THEN <<"PostgreSQL">> ELSE <<>>),
     available |-> AvailableChannel(openPorts)]

\* hostInfo.hostname || `host-${ip.replace(/\./g, '-')}`, line 4305
HostnameOrDefault(hostname, ip) ==
    IF Falsy(hostname) THEN <<"h", "o", "s", "t", "-">> \o ReplaceDots(ip) ELSE hostname

\* faulty variant: the host is recorded as offline
HostRecord_Offline(rec) ==
    [ipAddress |-> rec.ip,
     macAddress |-> rec.host.hostInfo.macAddress,
     hostname |-> HostnameOrDefault(rec.host.hostInfo.hostname, rec.ip),
     status |-> "offline",
     source |-> "network-scan",
     systemInfo |-> rec.host.hostInfo.systemInfo,
     hardwareDetails |-> rec.host.hostInfo.hardwareDetails]

\* the argument of storage.createDiscoveredHost, lines 4302-4312
HostRecord(rec) ==
    [ipAddress |-> rec.ip,
     macAddress |-> rec.host.hostInfo.macAddress,
     hostname |-> HostnameOrDefault(rec.host.hostInfo.hostname, rec.ip),
     status |-> "online",
     source |-> "network-scan",
     systemInfo |-> rec.host.hostInfo.systemInfo,
     hardwareDetails |-> rec.host.hostInfo.hardwareDetails]

\* line 4302: the call is issued and awaited
CallCreate(rec) ==
    [rec EXCEPT !.pc = "saving",
                !.saveLog = Append(@, [i |-> rec.i, ip |-> rec.ip, result |-> "pending"])]

\* lines 4451-4475 with systemInfo as detectOperatingSystem returned it
GatherTail(rec, systemInfo) ==
    LET o == rec.scanDetails.scanOptions
        ports == rec.host.openPorts
        hw0 == IF o.scanForHardwareDetails
               THEN GatherHardwareDetails(ports, systemInfo) ELSE NoHardware
        hw1 == IF o.scanForUSB THEN [hw0 EXCEPT !.usb = AvailableChannel(ports)] ELSE hw0
        hw2 == IF o.scanForSerialNumbers
               THEN [hw1 EXCEPT !.serialNumbers = AvailableChannel(ports)] ELSE hw1
        si == IF o.scanForInstalledSoftware
              THEN [systemInfo EXCEPT !.installedSoftware = ScanInstalledSoftware(ports)]
              ELSE systemInfo
    IN  CallCreate([rec EXCEPT !.host.hostInfo.systemInfo = si,
                               !.host.hostInfo.hardwareDetails = hw2])

---------------------------------------------------------------------------
(* detectOperatingSystem: lines 4530-4593 *)

\* faulty variant: a banner naming Apache or nginx also sets the OS
ApplyHttpBanner_ServerSetsOs(systemInfo, httpBanner) ==
    IF ~Truthy(httpBanner) THEN systemInfo
    ELSE IF "IIS" \in httpBanner.has
         THEN [systemInfo EXCEPT !.os = "Windows", !.webServer = "IIS"]
    ELSE IF "Apache" \in httpBanner.has
         THEN [systemInfo EXCEPT !.os = "Linux/Unix", !.webServer = "Apache"]
    ELSE IF "nginx" \in httpBanner.has
         THEN [systemInfo EXCEPT !.os = "Linux/Unix", !.webServer = "nginx"]
    ELSE systemInfo

\* lines 4573-4582 on the value getHttpBanner resolved with
ApplyHttpBanner(systemInfo, httpBanner) ==
    IF ~Truthy(httpBanner) THEN systemInfo
    ELSE IF "IIS" \in httpBanner.has
         THEN [systemInfo EXCEPT !.os = "Windows", !.webServer = "IIS"]
    ELSE IF "Apache" \in httpBanner.has THEN [systemInfo EXCEPT !.webServer = "Apache"]
    ELSE IF "nginx" \in httpBanner.has THEN [systemInfo EXCEPT !.webServer = "nginx"]
    ELSE systemInfo

\* the port of the HEAD request, line 4572
HttpBannerPort(openPorts) == IF Has(openPorts, 443) THEN 443 ELSE 80

\* lines 4569-4593: the HTTP banner is awaited, or the function returns
HttpStage(rec, systemInfo) ==
    IF Has(rec.host.openPorts, 80) \/ Has(rec.host.openPorts, 443)
    THEN [rec EXCEPT !.pc = "httpBanner", !.host.hostInfo.systemInfo = systemInfo,
                     !.host.httpPort = HttpBannerPort(rec.host.openPorts)]
    ELSE GatherTail(rec, systemInfo)

\* lines 4555-4563 on the value getBanner resolved with
ApplySshBanner(systemInfo, sshBanner) ==
    IF ~Truthy(sshBanner) THEN systemInfo
    ELSE IF "Ubuntu" \in sshBanner.has THEN [systemInfo EXCEPT !.os = "Ubuntu Linux"]
    ELSE IF "CentOS" \in sshBanner.has THEN [systemInfo EXCEPT !.os = "CentOS Linux"]
    ELSE IF "Red Hat" \in sshBanner.has THEN [systemInfo EXCEPT !.os = "Red Hat Linux"]
    ELSE systemInfo

\* getBanner resolved: lines 4554-4567, then the HTTP stage
SshBannerResolved(rec, sshBanner) ==
    HttpStage([rec EXCEPT !.host.sock = "destroyed", !.host.sshBanner = sshBanner],
              ApplySshBanner(rec.host.hostInfo.systemInfo, sshBanner))

\* faulty variant: the port-22 rule is tried before the port-3389 rule
DetectOperatingSystem_SshFirst(rec) ==
    LET ports == rec.host.openPorts IN
    IF Has(ports, 22)
    THEN [rec EXCEPT
            !.pc = "sshBanner",
            !.host.hostInfo.systemInfo =
                [NoSystemInfo EXCEPT !.os = "Linux/Unix", !.architecture = "x64"],
            !.host.sock = "connecting", !.host.banner = Text(0, {}),
            !.host.chunks = 0, !.host.timerFired = FALSE]
    ELSE IF Has(ports, 3389)
    THEN HttpStage(rec,
            [NoSystemInfo EXCEPT
                !.os = "Windows", !.architecture = "x64",
                !.version = IF Has(ports, 5985) \/ Has(ports, 5986)
                            THEN "Windows Server 2008 R2 or later" ELSE "Unknown"])
    ELSE HttpStage(rec, NoSystemInfo)

\* lines 4531-4554 with the sorted ports scanPorts returned: the port rules,
\* up to the await of getBanner(ip, 22) (lines 4597-4600, 4630)
DetectOperatingSystem(rec) ==
    LET ports == rec.host.openPorts IN
    IF Has(ports, 3389)
    THEN HttpStage(rec,
            [NoSystemInfo EXCEPT
                !.os = "Windows", !.architecture = "x64",
                !.version = IF Has(ports, 5985) \/ Has(ports, 5986)
                            THEN "Windows Server 2008 R2 or later" ELSE "Unknown"])
    ELSE IF Has(ports, 22)
    THEN [rec EXCEPT
            !.pc = "sshBanner",
            !.host.hostInfo.systemInfo =
                [NoSystemInfo EXCEPT !.os = "Linux/Unix", !.architecture = "x64"],
            !.host.sock = "connecting", !.host.banner = Text(0, {}),
            !.host.chunks = 0, !.host.timerFired = FALSE]
    ELSE HttpStage(rec, NoSystemInfo)

---------------------------------------------------------------------------
(* gatherHostInfo up to detectOperatingSystem: lines 4420-4449, and        *)
(* scanPorts, lines 4497-4527                                              *)

\* faulty variant: the ports are returned in the order they connected
ScanPortsResolved_Unsorted(rec) == DetectOperatingSystem(rec)

\* Promise.all resolved: line 4526, then line 4449
ScanPortsResolved(rec) ==
    DetectOperatingSystem([rec EXCEPT !.host.openPorts = SortAsc(@)])

\* one probe of scanPorts settled: lines 4506-4519
ProbeSettled(rec, port, connected) ==
    LET r1 == [rec EXCEPT !.host.pending = @ \ {port},
                          !.host.openPorts = IF connected THEN Append(@, port) ELSE @,
                          !.host.connectOrder = IF connected THEN Append(@, port) ELSE @]
    IN  IF r1.host.pending = {} THEN ScanPortsResolved(r1) ELSE r1

\* lines 4443-4446 and 4498-4525: the MAC address is null, 16 probes are launched
StartScanPorts(rec) ==
    [rec EXCEPT !.pc = "scanPorts", !.host.hostInfo.macAddress = Null,
                !.host.pending = SeqToSet(ScanPortList), !.host.openPorts = <<>>]

\* hostnames[0].replace(/\.$/, '')
StripTrailingDot(s) ==
    IF Len(s) > 0 /\ s[Len(s)] = "." THEN SubSeq(s, 1, Len(s) - 1) ELSE s

\* dns.reverse settled, lines 4432-4439: answer is "failed" or the names
DnsResolved(rec, failed, hostnames) ==
    StartScanPorts(
        IF ~failed /\ Len(hostnames) > 0
        THEN [rec EXCEPT !.host.hostInfo.hostname = StripTrailingDot(hostnames[1])]
        ELSE rec)

\* lines 4421-4432
StartGather(rec) ==
    LET r1 == [rec EXCEPT !.host.hostInfo = NewHostInfo] IN
    IF rec.scanDetails.scanOptions.useDNS \/ rec.scanDetails.dnsSettings
    THEN [r1 EXCEPT !.pc = "dns"]
    ELSE StartScanPorts(r1)

---------------------------------------------------------------------------
(* The host loop of startNetworkScan: lines 4282-4320, and pingHost,       *)
(* lines 4373-4393                                                         *)

\* faulty variant: the host is counted when found and again when gathered
OnAlive_CountedTwice(rec) == StartGather([rec EXCEPT !.discoveredHosts = @ + 2])

\* lines 4293-4298
OnAlive(rec) == StartGather([rec EXCEPT !.discoveredHosts = @ + 1])

\* lines 4318-4320
OnDead(rec) == AfterHost(rec)

\* faulty variant: the host is handled as alive whatever pingHost returned
PingResolved_NoCheck(rec, isAlive) ==
    OnAlive([rec EXCEPT !.host.isAlive = isAlive,
                        !.pingLog = Append(@, [i |-> rec.i, ip |-> rec.ip, alive |-> isAlive])])

\* line 4291 resumed with the value of pingHost, line 4293
PingResolved(rec, isAlive) ==
    LET r1 == [rec EXCEPT !.host.isAlive = isAlive,
                          !.pingLog = Append(@, [i |-> rec.i, ip |-> rec.ip, alive |-> isAlive])]
    IN  IF isAlive THEN OnAlive(r1) ELSE OnDead(r1)

\* faulty variant: only the first port of the list decides
PingProbeSettled_FirstPortOnly(rec, isReachable) == PingResolved(rec, isReachable)

\* faulty variant: after a failed probe the next port of the list is skipped
PingProbeSettled_SkipsPort(rec, isReachable) ==
    IF isReachable THEN PingResolved(rec, TRUE)
    ELSE IF rec.host.portIdx < Len(PingPorts)
         THEN [rec EXCEPT !.host.portIdx = Min(@ + 2, Len(PingPorts))]
         ELSE PingResolved(rec, FALSE)

\* one probe of pingHost settled, lines 4381-4392
PingProbeSettled(rec, isReachable) ==
    IF isReachable THEN PingResolved(rec, TRUE)
    ELSE IF rec.host.portIdx < Len(PingPorts)
         THEN [rec EXCEPT !.host.portIdx = @ + 1]
         ELSE PingResolved(rec, FALSE)

\* faulty variant: scannedHosts is not counted
ScannedAfter_Forgotten(scannedHosts) == scannedHosts

\* scannedHosts++, line 4285
ScannedAfter(scannedHosts) == scannedHosts + 1

\* lines 4283-4291 for candidate i; accepting is the set of ports on which
\* that host accepts a connection within the timeout
BeginIteration(rec, i, accepting) ==
    LET k == ScannedAfter(rec.scannedHosts) IN
    [rec EXCEPT !.pc = "ping", !.i = i, !.ip = rec.ipsToScan[i + 1],
                !.scannedHosts = k,
                !.progress = ProgressPercent(k, Len(rec.ipsToScan)),
                !.host = [NoHostLocals EXCEPT !.accepting = accepting, !.portIdx = 1]]

\* lines 4223-4291: the call by the request handler, up to the first await
StartNetworkScan(ipRange, scanDetails, accepting) ==
    LET r0 == [IdleRun EXCEPT !.ipRange = ipRange, !.scanDetails = scanDetails,
                              !.ipsToScan = ExpandRange(ipRange)]
    IN  IF Len(r0.ipsToScan) = 0 THEN FinishRun(r0) ELSE BeginIteration(r0, 0, accepting)

---------------------------------------------------------------------------
(* The environment: requests, hosts, DNS, banners *)

Runs == {1, 2}

\* the activation the single-scan specifications follow
Solo == CHOOSE r \in Runs : \A q \in Runs : r <= q

MaxChunks == 2

\* ranges of the scan specification: few candidates each
ScanRanges ==
    { Absent, <<>>,
      <<"n", "o", "t", "-", "a", "n", "-", "i", "p">>,
      WithPrefix(Quad(1, 2, 3, 4), 33),
      Quad(999, 1, 1, 1),
      Quad(10, 0, 0, 7),
      WithPrefix(Quad(10, 0, 0, 5), 32),
      WithPrefix(Quad(10, 0, 0, 0), 31),
      WithPrefix(Quad(10, 0, 0, 255), 30),
      WithPrefix(Quad(10, 0, 0, 252), 29) }

ScanBodies == {Body(x, o) : x \in ScanRanges, o \in {NoOptions, AllOptions}}

\* per host, the ports that accept a connection within the timeout
Profiles == { {}, {22}, {445}, {80, 3389, 5985} }

\* what dns.reverse can answer with
DnsAnswers == { <<>>, << <<"s", "r", "v", ".">> >> }

\* the chunks a 'data' event of the banner socket can carry
BannerChunks == { Text(30, {"Ubuntu"}), Text(1000, {}) }

\* what getHttpBanner (lines 4643-4658) can resolve with
HttpBanners == { NoText, Text(12, {"IIS"}), Text(5, {"nginx"}) }

\* the first pending probe of scanPorts, in list order, to a port that does
\* not accept: such probes settle without any effect but leaving pending
FirstClosedPending(rec) ==
    {ScanPortList[k] : k \in {j \in 1..Len(ScanPortList) :
        /\ ScanPortList[j] \in rec.host.pending \ rec.host.accepting
        /\ \A m \in 1..(j - 1) :
              ScanPortList[m] \notin rec.host.pending \ rec.host.accepting}}

---------------------------------------------------------------------------
(* State *)

Init ==
    /\ runs = [r \in Runs |-> IdleRun]
    /\ store = <<>>
    /\ lastReq = [body |-> Body(Absent, NoOptions), status |-> 0, message |-> "",
                  started |-> FALSE]

Resume(r, rec) == runs' = [runs EXCEPT ![r] = rec]

---------------------------------------------------------------------------
(* Actions *)

\* POST /api/network-discovery/scan, lines 3115-3193; startNetworkScan is
\* called without await and runs to its first await inside the handler
Request(r, body, accepting) ==
    /\ runs[r].pc = "idle"
    /\ LET v == Validate(body.ipRange) IN
       /\ lastReq' = [body |-> body, status |-> v.status, message |-> v.message,
                      started |-> v.status = 200]
       /\ IF v.status = 200
          THEN Resume(r, StartNetworkScan(body.ipRange, ScanDetails(body), accepting))
          ELSE UNCHANGED runs
    /\ UNCHANGED store

\* checkTcpConnection, lines 4401-4404, for the probe pingHost awaits
PingConnect(r) ==
    /\ runs[r].pc = "ping"
    /\ PingPorts[runs[r].host.portIdx] \in runs[r].host.accepting
    /\ Resume(r, PingProbeSettled(runs[r], TRUE))
    /\ UNCHANGED <<store, lastReq>>

\* checkTcpConnection, lines 4406-4409
PingTimeout(r) ==
    /\ runs[r].pc = "ping"
    /\ PingPorts[runs[r].host.portIdx] \notin runs[r].host.accepting
    /\ Resume(r, PingProbeSettled(runs[r], FALSE))
    /\ UNCHANGED <<store, lastReq>>

\* checkTcpConnection, lines 4411-4413
PingError(r) ==
    /\ runs[r].pc = "ping"
    /\ PingPorts[runs[r].host.portIdx] \notin runs[r].host.accepting
    /\ Resume(r, PingProbeSettled(runs[r], FALSE))
    /\ UNCHANGED <<store, lastReq>>

\* dns.reverse calls back with names, lines 4432-4436
DnsAnswer(r, hostnames) ==
    /\ runs[r].pc = "dns"
    /\ Resume(r, DnsResolved(runs[r], FALSE, hostnames))
    /\ UNCHANGED <<store, lastReq>>

\* dns.reverse calls back with an error, lines 4437-4439
DnsFail(r) ==
    /\ runs[r].pc = "dns"
    /\ Resume(r, DnsResolved(runs[r], TRUE, <<>>))
    /\ UNCHANGED <<store, lastReq>>

\* scanPorts, lines 4506-4510
ScanConnect(r, port) ==
    /\ runs[r].pc = "scanPorts"
    /\ port \in runs[r].host.pending \cap runs[r].host.accepting
    /\ Resume(r, ProbeSettled(runs[r], port, TRUE))
    /\ UNCHANGED <<store, lastReq>>

\* scanPorts, lines 4512-4515
ScanTimeout(r, port) ==
    /\ runs[r].pc = "scanPorts"
    /\ port \in runs[r].host.pending \ runs[r].host.accepting
    /\ Resume(r, ProbeSettled(runs[r], port, FALSE))
    /\ UNCHANGED <<store, lastReq>>

\* scanPorts, lines 4517-4519
ScanError(r, port) ==
    /\ runs[r].pc = "scanPorts"
    /\ port \in runs[r].host.pending \ runs[r].host.accepting
    /\ Resume(r, ProbeSettled(runs[r], port, FALSE))
    /\ UNCHANGED <<store, lastReq>>

\* getBanner, lines 4602-4611: port 22 sends its banner unprompted
BannerConnect(r) ==
    /\ runs[r].pc = "sshBanner"
    /\ runs[r].host.sock = "connecting"
    /\ Resume(r, [runs[r] EXCEPT !.host.sock = "open"])
    /\ UNCHANGED <<store, lastReq>>

\* getBanner, lines 4613-4619
BannerData(r, chunk) ==
    /\ runs[r].pc = "sshBanner"
    /\ runs[r].host.sock = "open"
    /\ runs[r].host.chunks < MaxChunks
    /\ LET banner == Append2(runs[r].host.banner, chunk) IN
       IF banner.len > BannerCap
       THEN Resume(r, SshBannerResolved(runs[r], Substring1024(banner)))
       ELSE Resume(r, [runs[r] EXCEPT !.host.banner = banner, !.host.chunks = @ + 1])
    /\ UNCHANGED <<store, lastReq>>

\* getBanner, lines 4633-4638: the 2000 ms timer
BannerTimer(r) ==
    /\ runs[r].pc = "sshBanner"
    /\ ~runs[r].host.timerFired
    /\ IF Truthy(runs[r].host.banner)
       THEN Resume(r, SshBannerResolved(runs[r], runs[r].host.banner))
       ELSE Resume(r, [runs[r] EXCEPT !.host.timerFired = TRUE])
    /\ UNCHANGED <<store, lastReq>>

\* getBanner, lines 4621-4624: 3000 ms without activity on the socket, so
\* never before the 2000 ms timer; a destroyed socket has no timeout
BannerIdleTimeout(r) ==
    /\ runs[r].pc = "sshBanner"
    /\ runs[r].host.sock \in {"connecting", "open"}
    /\ runs[r].host.timerFired
    /\ Resume(r, SshBannerResolved(runs[r], OrNull(runs[r].host.banner)))
    /\ UNCHANGED <<store, lastReq>>

\* getBanner, lines 4626-4628
BannerError(r) ==
    /\ runs[r].pc = "sshBanner"
    /\ runs[r].host.sock \in {"connecting", "open"}
    /\ Resume(r, SshBannerResolved(runs[r], NoText))
    /\ UNCHANGED <<store, lastReq>>

\* the peer closes the connection: net.Socket ends and destroys itself
\* ('end', 'close'), events getBanner registers no handler for (4602-4628)
BannerRemoteClose(r) ==
    /\ runs[r].pc = "sshBanner"
    /\ runs[r].host.sock = "open"
    /\ Resume(r, [runs[r] EXCEPT !.host.sock = "destroyed"])
    /\ UNCHANGED <<store, lastReq>>

\* getHttpBanner resolved, lines 4572-4586, then gatherHostInfo's tail
HttpBannerResolved(r, text) ==
    /\ runs[r].pc = "httpBanner"
    /\ Resume(r, GatherTail([runs[r] EXCEPT !.host.httpBanner = text],
                            ApplyHttpBanner(runs[r].host.hostInfo.systemInfo, text)))
    /\ UNCHANGED <<store, lastReq>>

\* storage.createDiscoveredHost resolved, lines 4302-4314
SaveOk(r) ==
    /\ runs[r].pc = "saving"
    /\ store' = Append(store, HostRecord(runs[r]))
    /\ Resume(r, AfterHost(SetLastSave(runs[r], "ok")))
    /\ UNCHANGED lastReq

\* storage.createDiscoveredHost rejected with an Error, lines 4315-4317
SaveFail(r) ==
    /\ runs[r].pc = "saving"
    /\ Resume(r, SaveRejected(runs[r]))
    /\ UNCHANGED <<store, lastReq>>

\* the 100 ms delay is over, lines 4338-4340, and the next iteration starts
DelayElapsed(r, accepting) ==
    /\ runs[r].pc = "delay"
    /\ Resume(r, BeginIteration(runs[r], runs[r].i + 1, accepting))
    /\ UNCHANGED <<store, lastReq>>

---------------------------------------------------------------------------
(* Specifications *)

\* one scan at a time
Next ==
    \/ \E body \in ScanBodies, accepting \in Profiles : Request(Solo, body, accepting)
    \/ PingConnect(Solo)
    \/ PingTimeout(Solo)
    \/ PingError(Solo)
    \/ \E hostnames \in DnsAnswers : DnsAnswer(Solo, hostnames)
    \/ DnsFail(Solo)
    \/ \E port \in SeqToSet(ScanPortList) : ScanConnect(Solo, port)
    \/ \E port \in FirstClosedPending(runs[Solo]) : ScanTimeout(Solo, port)
    \/ \E port \in FirstClosedPending(runs[Solo]) : ScanError(Solo, port)
    \/ BannerConnect(Solo)
    \/ \E chunk \in BannerChunks : BannerData(Solo, chunk)
    \/ BannerTimer(Solo)
    \/ BannerIdleTimeout(Solo)
    \/ BannerError(Solo)
    \/ BannerRemoteClose(Solo)
    \/ \E text \in HttpBanners : HttpBannerResolved(Solo, text)
    \/ SaveOk(Solo)
    \/ SaveFail(Solo)
    \/ \E accepting \in Profiles : DelayElapsed(Solo, accepting)

Spec == Init /\ [][Next]_vars

MaxLastOctet == 255

\* ranges of the expansion specification: every last octet with every prefix
\* on one network, some on another, bare addresses, leading zeros, and
\* malformed strings
ExpandRanges ==
    LET quads == {Quad(10, 0, 0, d) : d \in 0..MaxLastOctet}
                 \cup {Quad(192, 168, 1, d) : d \in {0, 77, 200}}
    IN  quads
        \cup {WithPrefix(q, p) : q \in quads, p \in 0..32}
        \cup { <<"0", "1", "0", ".", "0", "0", ".", "0", ".", "0", "7", "/", "1", "6">>,
               <<"0", "1", "0", ".", "0", ".", "0", ".", "0", "0", "9", "/", "2", "8">>,
               WithPrefix(Quad(10, 0, 0, 1), 33),
               <<"1", "0", ".", "0", ".", "0", "/", "2", "4">>,
               <<"1", "0", ".", "0", ".", "0", ".", "1", "/", "0", "8">>,
               <<>> }

ExpandBodies == {Body(x, NoOptions) : x \in ExpandRanges}

\* the handler on every range, up to the first await of the scan it starts
NextExpand == \E body \in ExpandBodies : Request(Solo, body, {})

SpecExpand == Init /\ [][NextExpand]_vars

\* one host, one request: the hosts of the port-scan specification accept on
\* ports the probes of which finish in every order
PortScanBodies == {Body(Quad(10, 0, 0, 7), NoOptions)}

PortScanProfiles == { {445}, {22, 443, 5985} }

\* scanPorts with its 16 probes settling in every order: connect, timeout or
\* error of any pending probe, up to the return of the sorted list
NextPortScan ==
    \/ \E body \in PortScanBodies, accepting \in PortScanProfiles :
          Request(Solo, body, accepting)
    \/ PingConnect(Solo)
    \/ PingTimeout(Solo)
    \/ PingError(Solo)
    \/ \E port \in SeqToSet(ScanPortList) : ScanConnect(Solo, port)
    \/ \E port \in SeqToSet(ScanPortList) : ScanTimeout(Solo, port)
    \/ \E port \in SeqToSet(ScanPortList) : ScanError(Solo, port)

SpecPortScan == Init /\ [][NextPortScan]_vars

\* two requests: the handler keeps no record of a scan in progress (lines
\* 3115-3193), so each accepted request starts a run of its own
TwoRunBodies == {Body(Quad(10, 0, 0, 7), NoOptions)}

TwoRunProfiles == { {443} }

\* the handler and the callbacks of the runs of two requests, interleaved
NextTwoRuns ==
    \/ \E r \in Runs, body \in TwoRunBodies, accepting \in TwoRunProfiles :
          Request(r, body, accepting)
    \/ \E r \in Runs : PingConnect(r)
    \/ \E r \in Runs : PingTimeout(r)
    \/ \E r \in Runs : PingError(r)
    \/ \E r \in Runs, port \in SeqToSet(ScanPortList) : ScanConnect(r, port)
    \/ \E r \in Runs : \E port \in FirstClosedPending(runs[r]) : ScanTimeout(r, port)
    \/ \E r \in Runs : \E port \in FirstClosedPending(runs[r]) : ScanError(r, port)
    \/ \E r \in Runs, text \in HttpBanners : HttpBannerResolved(r, text)
    \/ \E r \in Runs : SaveOk(r)
    \/ \E r \in Runs : SaveFail(r)

SpecTwoRuns == Init /\ [][NextTwoRuns]_vars

\* one host scanned for its operating system: hosts with every combination
\* of the ports the rules of detectOperatingSystem read, SSH banners naming
\* none, one or two distributions, HTTP banners naming none, one or two servers
\* every placeholder asked for, no reverse DNS
PlaceholderOptions == [AllOptions EXCEPT !.useDNS = FALSE, !.hasDnsServer = FALSE]

DetectBodies == {Body(Quad(10, 0, 0, 7), o) : o \in {NoOptions, PlaceholderOptions}}

DetectProfiles ==
    { {445}, {22}, {3389}, {80}, {22, 3389}, {22, 3389, 5986}, {22, 80},
      {22, 80, 443}, {443, 3389, 5985} }

DetectBannerChunks ==
    { Text(20, {}), Text(30, {"Ubuntu"}), Text(30, {"CentOS"}), Text(30, {"Red Hat"}),
      Text(40, {"Ubuntu", "CentOS"}), Text(40, {"CentOS", "Red Hat"}) }

DetectHttpBanners ==
    { NoText, Text(8, {}), Text(12, {"IIS"}), Text(6, {"Apache"}), Text(5, {"nginx"}),
      Text(20, {"IIS", "Apache"}), Text(20, {"Apache", "nginx"}) }

\* the scan of one host up to the call of createDiscoveredHost
NextDetect ==
    \/ \E body \in DetectBodies, accepting \in DetectProfiles : Request(Solo, body, accepting)
    \/ PingConnect(Solo)
    \/ PingTimeout(Solo)
    \/ PingError(Solo)
    \/ \E port \in SeqToSet(ScanPortList) : ScanConnect(Solo, port)
    \/ \E port \in FirstClosedPending(runs[Solo]) : ScanTimeout(Solo, port)
    \/ \E port \in FirstClosedPending(runs[Solo]) : ScanError(Solo, port)
    \/ BannerConnect(Solo)
    \/ \E chunk \in DetectBannerChunks : BannerData(Solo, chunk)
    \/ BannerTimer(Solo)
    \/ BannerIdleTimeout(Solo)
    \/ BannerError(Solo)
    \/ BannerRemoteClose(Solo)
    \/ \E text \in DetectHttpBanners : HttpBannerResolved(Solo, text)

SpecDetect == Init /\ [][NextDetect]_vars

\* what error.message can be in the outer catch
ThrownMessages == {"RangeError", "TypeError"}

\* an exception raised in startNetworkScan outside the per-host try, where
\* the loop waits between two candidates (lines 4337-4340), is caught by the
\* outer catch (lines 4363-4369).  No statement of that part of the code
\* throws for the requests and hosts of Spec; the step stands for a fault of
\* the runtime there
ExceptionEscapes(r, message) ==
    /\ runs[r].pc = "delay"
    /\ Resume(r, ScanFailed(runs[r], message))
    /\ UNCHANGED <<store, lastReq>>

\* one scan, in which an exception may escape the per-host handling
NextFault ==
    \/ Next
    \/ \E message \in ThrownMessages : ExceptionEscapes(Solo, message)

SpecFault == Init /\ [][NextFault]_vars

\* long runs over hosts that accept on no port: /25 ranges of every length
\* 0..128 (base last octets 255 down to 127), a /24, a /16 and a /31
CadenceRanges ==
    {WithPrefix(Quad(10, 0, 0, b), 25) : b \in 127..255}
    \cup {WithPrefix(Quad(10, 0, 0, 0), 24), WithPrefix(Quad(10, 0, 0, 0), 16),
          WithPrefix(Quad(10, 0, 0, 0), 31)}

CadenceBodies == {Body(x, NoOptions) : x \in CadenceRanges}

\* the host loop over every candidate of a run, each host found dead
NextCadence ==
    \/ \E body \in CadenceBodies : Request(Solo, body, {})
    \/ PingTimeout(Solo)
    \/ PingError(Solo)
    \/ DelayElapsed(Solo, {})

SpecCadence == Init /\ [][NextCadence]_vars

\* the banner of one host on port 22, received in chunks of sizes around the
\* cap of 1024
CapBodies == {Body(Quad(10, 0, 0, 7), NoOptions)}

CapProfiles == { {22} }

CapChunks ==
    { Text(1, {}), Text(256, {}), Text(512, {}), Text(1023, {}), Text(1024, {}),
      Text(1025, {}),
      Text(3000, {"Ubuntu"}) }

\* the scan of one host up to the value getBanner resolves with
NextCap ==
    \/ \E body \in CapBodies, accepting \in CapProfiles : Request(Solo, body, accepting)
    \/ PingConnect(Solo)
    \/ PingTimeout(Solo)
    \/ PingError(Solo)
    \/ \E port \in SeqToSet(ScanPortList) : ScanConnect(Solo, port)
    \/ \E port \in FirstClosedPending(runs[Solo]) : ScanTimeout(Solo, port)
    \/ \E port \in FirstClosedPending(runs[Solo]) : ScanError(Solo, port)
    \/ BannerConnect(Solo)
    \/ \E chunk \in CapChunks : BannerData(Solo, chunk)
    \/ BannerTimer(Solo)
    \/ BannerIdleTimeout(Solo)
    \/ BannerError(Solo)
    \/ BannerRemoteClose(Solo)

SpecCap == Init /\ [][NextCap]_vars

\* the event loop delivers every pending event: sockets connect, fail or
\* time out, timers fire, DNS and storage call back
LiveSpec == Spec /\ WF_vars(Next)

---------------------------------------------------------------------------
(* Properties *)

Started(r) == runs[r].pc # "idle"

Completed(r) == runs[r].pc = "completed"

IsLoopProgress(e) == e.type = "scan_progress" /\ "currentIp" \in DOMAIN e

IsFinalProgress(e) == e.type = "scan_progress" /\ "completed" \in DOMAIN e

CountSaves(log, result) == Cardinality({k \in 1..Len(log) : log[k].result = result})

\* the state of a run as far as C1 speaks of it
C1_Counted(r) ==
    /\ ~Started(r) => runs[r].scannedHosts = 0
    /\ Started(r) /\ ~Completed(r) => runs[r].scannedHosts = runs[r].i + 1
    /\ Completed(r) => runs[r].scannedHosts = Len(runs[r].ipsToScan)

\* C1: within one run scannedHosts starts at 0, grows by exactly 1 with each
\* loop iteration (a step leaves it alone or adds 1, and adds 1 exactly when
\* a candidate is taken up), and equals the number of candidates when the
\* loop has ended, whatever happened to the hosts.
C1_ScannedHostsCountsIterations ==
    [][\A r \in Runs :
        /\ C1_Counted(r)'
        /\ runs'[r].scannedHosts \in {runs[r].scannedHosts, runs[r].scannedHosts + 1}
        /\ (runs'[r].scannedHosts = runs[r].scannedHosts + 1)
              <=> (runs'[r].pc = "ping" /\ runs[r].pc \in {"idle", "delay"})
        /\ runs[r].pc = "idle" => runs[r].scannedHosts = 0]_vars

\* a run of three candidates has ended: one host was dead, one was saved and
\* the save of one was rejected
C1_Witness ==
    /\ Completed(Solo) /\ runs[Solo].scannedHosts = 3
    /\ Len(runs[Solo].ipsToScan) = 3
    /\ \E k \in 1..3 : ~runs[Solo].pingLog[k].alive
    /\ CountSaves(runs[Solo].saveLog, "ok") = 1
    /\ CountSaves(runs[Solo].saveLog, "failed") = 1

\* C2: in every state of a run and in every scan_progress and scan_completed
\* event it has sent, discoveredHosts <= scannedHosts.
C2_DiscoveredAtMostScanned ==
    \A r \in Runs :
        /\ runs[r].discoveredHosts <= runs[r].scannedHosts
        /\ \A k \in 1..Len(runs[r].events) :
              LET e == runs[r].events[k] IN
              /\ e.type = "scan_progress" => e.discoveredHosts <= e.scannedHosts
              /\ e.type = "scan_completed" => e.hostsDiscovered <= e.totalScanned

\* every candidate of a run of three was alive, and the events say so
C2_Witness ==
    /\ Completed(Solo)
    /\ runs[Solo].discoveredHosts = 3 /\ runs[Solo].scannedHosts = 3
    /\ \E k \in 1..Len(runs[Solo].events) :
          /\ IsLoopProgress(runs[Solo].events[k])
          /\ runs[Solo].events[k].discoveredHosts = 3

\* C3: createDiscoveredHost is called for an IP only after pingHost returned
\* true for that IP in the same iteration; nothing is created for a candidate
\* whose liveness check returned false.
C3_SavedOnlyIfAlive ==
    \A r \in Runs :
        /\ \A k \in 1..Len(runs[r].saveLog) :
              \E j \in 1..Len(runs[r].pingLog) :
                  /\ runs[r].pingLog[j].i = runs[r].saveLog[k].i
                  /\ runs[r].pingLog[j].ip = runs[r].saveLog[k].ip
                  /\ runs[r].pingLog[j].alive
        /\ \A j \in 1..Len(runs[r].pingLog) :
              ~runs[r].pingLog[j].alive =>
                  /\ \A k \in 1..Len(runs[r].saveLog) :
                        runs[r].saveLog[k].ip # runs[r].pingLog[j].ip
                  /\ \A k \in 1..Len(store) :
                        store[k].ipAddress # runs[r].pingLog[j].ip
        /\ runs[r].pc = "saving" =>
              /\ runs[r].host.isAlive
              /\ runs[r].saveLog[Len(runs[r].saveLog)].ip = runs[r].ip

\* a dead host was passed over, then a live one is being saved
C3_Witness ==
    /\ runs[Solo].pc = "saving"
    /\ Len(runs[Solo].pingLog) = 2
    /\ ~runs[Solo].pingLog[1].alive
    /\ runs[Solo].pingLog[2].alive

\* C4: a started scan run eventually ends (scan_completed or scan_error),
\* whatever the sockets of the probed hosts do.
C4_RunTerminates ==
    Started(Solo) ~> (runs[Solo].pc \in {"completed", "failed"})

\* C5: a run whose loop has finished has sent exactly one scan_progress event
\* with progress 100 and completed true and then exactly one scan_completed
\* event with the final counts, as its last two events; neither kind of event
\* is sent at any other point of a run.
C5_FinalEventsInOrder ==
    \A r \in Runs :
        LET ev == runs[r].events
            n == Len(ev)
        IN  /\ Completed(r) =>
                  /\ n >= 2
                  /\ IsFinalProgress(ev[n - 1])
                  /\ ev[n - 1].progress = 100 /\ ev[n - 1].completed
                  /\ ev[n - 1].scannedHosts = runs[r].scannedHosts
                  /\ ev[n - 1].discoveredHosts = runs[r].discoveredHosts
                  /\ ev[n].type = "scan_completed"
                  /\ ev[n].hostsDiscovered = runs[r].discoveredHosts
                  /\ ev[n].totalScanned = runs[r].scannedHosts
            /\ \A k \in 1..n :
                  /\ IsFinalProgress(ev[k]) => Completed(r) /\ k = n - 1
                  /\ ev[k].type = "scan_completed" => Completed(r) /\ k = n

\* the loop's own event for the last host carried progress 100 as well, and
\* the flagged event and the summary followed it
C5_Witness ==
    /\ Completed(Solo)
    /\ Len(runs[Solo].events) >= 3
    /\ LET ev == runs[Solo].events IN
       /\ IsLoopProgress(ev[Len(ev) - 2]) /\ ev[Len(ev) - 2].progress = 100
       /\ IsFinalProgress(ev[Len(ev) - 1])
       /\ ev[Len(ev)].type = "scan_completed" /\ ev[Len(ev)].hostsDiscovered >= 1

\* the hosts whose save succeeded, in the order of the calls
RECURSIVE SavedIps(_)
SavedIps(log) ==
    IF Len(log) = 0 THEN <<>>
    ELSE SavedIps(SubSeq(log, 1, Len(log) - 1))
         \o (IF log[Len(log)].result = "ok" THEN <<log[Len(log)].ip>> ELSE <<>>)

C6_AfterRejection(r) ==
    (\E k \in 1..Len(runs[r].saveLog) : runs[r].saveLog[k].result = "failed") =>
        /\ runs[r].pc # "failed"
        /\ \A k \in 1..Len(runs[r].events) : runs[r].events[k].type # "scan_error"
        /\ \A k \in 1..Len(runs[r].pingLog) :
              runs[r].pingLog[k].i = k - 1 /\ runs[r].pingLog[k].ip = runs[r].ipsToScan[k]
        /\ Completed(r) =>
              /\ runs[r].scannedHosts = Len(runs[r].ipsToScan)
              /\ Len(runs[r].pingLog) = Len(runs[r].ipsToScan)
              /\ runs[r].events[Len(runs[r].events)].type = "scan_completed"
        /\ [k \in 1..Len(store) |-> store[k].ipAddress] = SavedIps(runs[r].saveLog)

\* C6: a rejected createDiscoveredHost does not abort the run: the step that
\* handles the rejection leaves the store alone and goes on to the delay
\* before the next candidate (or, after the last candidate, to the end of the
\* run); from then on the candidates are still taken in order, no scan_error
\* is sent, a run that ends ends with scan_completed and scannedHosts equal to
\* the number of candidates, and the store holds exactly the hosts whose save
\* succeeded, before and after the rejected one.
C6_SaveFailureIsolated ==
    [][\A r \in {Solo} :
        /\ C6_AfterRejection(r)'
        /\ (runs[r].pc = "saving" /\ CountSaves(runs'[r].saveLog, "failed")
                                      > CountSaves(runs[r].saveLog, "failed")) =>
              /\ store' = store
              /\ runs'[r].pc = (IF runs[r].i < Len(runs[r].ipsToScan) - 1
                                THEN "delay" ELSE "completed")
        /\ \A k \in 1..Len(store) : Len(store') >= k /\ store'[k] = store[k]]_vars

\* three live hosts: the save of the second was rejected, the first and the
\* third are in the store, and the run has completed
C6_Witness ==
    /\ Completed(Solo)
    /\ Len(runs[Solo].saveLog) = 3
    /\ runs[Solo].saveLog[1].result = "ok"
    /\ runs[Solo].saveLog[2].result = "failed"
    /\ runs[Solo].saveLog[3].result = "ok"
    /\ Len(store) = 2
    /\ store[1].ipAddress = runs[Solo].ipsToScan[1]
    /\ store[2].ipAddress = runs[Solo].ipsToScan[3]

\* a dotted quad of four decimal octets 0..255
WellFormedQuad(q) ==
    LET o == Split(q, ".") IN
    /\ Len(o) = 4
    /\ \A k \in 1..4 : DigitRun(o[k]) /\ ParseDigits(o[k]) <= 255

\* an IPv4 address, or an IPv4 address, '/' and a prefix length 0..32
WellFormedRange(s) ==
    LET halves == Split(s, "/") IN
    /\ Len(halves) \in {1, 2}
    /\ WellFormedQuad(halves[1])
    /\ Len(halves) = 2 =>
          /\ Len(halves[2]) \in 1..2
          /\ \A k \in 1..Len(halves[2]) : IsDigit(halves[2][k])
          /\ Len(halves[2]) = 2 => halves[2][1] # "0"
          /\ ParseDigits(halves[2]) <= 32

Answered == lastReq.status # 0

\* C7: a request whose ipRange is given and is not a well-formed IPv4 address
\* or CIDR is answered 400 with the format message, and no scan is started
\* for it.
C7_IllFormedRejected ==
    (Answered /\ ~Falsy(lastReq.body.ipRange) /\ ~WellFormedRange(lastReq.body.ipRange)) =>
        /\ lastReq.status = 400
        /\ lastReq.message = MsgInvalid
        /\ ~lastReq.started
        /\ runs[Solo] = IdleRun
        /\ store = <<>>

\* C8: a request with no ipRange (absent or empty) is answered 400 with
\* "IP range is required", the message of the check that runs first, and no
\* scan is started.
C8_MissingRangeRejected ==
    (Answered /\ lastReq.body.ipRange \in {Absent, <<>>}) =>
        /\ lastReq.status = 400
        /\ lastReq.message = "IP range is required"
        /\ ~lastReq.started
        /\ runs[Solo] = IdleRun
        /\ store = <<>>

\* the empty string, which fails the format check as well, was answered
C8_Witness ==
    /\ Answered /\ lastReq.body.ipRange = <<>>
    /\ lastReq.status = 400 /\ lastReq.message = MsgRequired

HasPrefix(s) == Includes(s, "/")

PrefixOf(s) == ParseDigits(Split(s, "/")[2])

BaseOctets(s) == Split(Split(s, "/")[1], ".")

\* usable hosts of an IPv4 subnet: 2 for /31, else 2^(32 - prefix) - 2
ExpectedHostCount(p) == IF p = 31 THEN 2 ELSE Pow2(32 - p) - 2

\* C9: for an accepted range with prefix 24..31 the number of candidates is
\* the expected host count of the prefix (/24 -> 254, /30 -> 2, /31 -> 2),
\* whatever the last octet of the base IP.
C9_ExpectedHostCount ==
    (lastReq.started /\ HasPrefix(lastReq.body.ipRange)
        /\ PrefixOf(lastReq.body.ipRange) \in 24..31) =>
        Len(runs[Solo].ipsToScan) = ExpectedHostCount(PrefixOf(lastReq.body.ipRange))

\* C10: for an accepted range with prefix 0..23 there are exactly 50
\* candidates: the k-th is the base IP's first three octets followed by k.
C10_LargeSubnetFirstFifty ==
    (lastReq.started /\ HasPrefix(lastReq.body.ipRange)
        /\ PrefixOf(lastReq.body.ipRange) \in 0..23) =>
        /\ Len(runs[Solo].ipsToScan) = 50
        /\ \A k \in 1..Len(runs[Solo].ipsToScan) :
              LET o == Split(runs[Solo].ipsToScan[k], ".") IN
              /\ Len(o) = 4
              /\ \A j \in 1..3 :
                    ParseDigits(o[j]) = ParseDigits(BaseOctets(lastReq.body.ipRange)[j])
              /\ o[4] = ToStr(k)

\* 10.0.0.0/16 was accepted and gave 10.0.0.1 .. 10.0.0.50
C10_Witness ==
    /\ lastReq.started
    /\ lastReq.body.ipRange = WithPrefix(Quad(10, 0, 0, 0), 16)
    /\ Len(runs[Solo].ipsToScan) = 50
    /\ runs[Solo].ipsToScan[1] = Quad(10, 0, 0, 1)
    /\ runs[Solo].ipsToScan[50] = Quad(10, 0, 0, 50)

\* the candidate is a dotted quad on the first three octets of the request's
\* base IP (compared as numbers) with the last octet d
OnBaseNetwork(ip, d) ==
    LET o == Split(ip, ".") IN
    /\ Len(o) = 4
    /\ \A j \in 1..3 : ParseDigits(o[j]) = ParseDigits(BaseOctets(lastReq.body.ipRange)[j])
    /\ o[4] = ToStr(d)

BaseLastOctet == ParseDigits(BaseOctets(lastReq.body.ipRange)[4])

\* C11: for an accepted /24 the candidates are the last octets 1..254 whatever
\* the base IP's last octet; for an accepted /25../30 with h = 32 - prefix
\* they are exactly the last octets b .. min(b + 2^h - 1, 254), b the base
\* IP's last octet, ascending, on the base IP's first three octets.
C11_LastOctetRange ==
    (lastReq.started /\ HasPrefix(lastReq.body.ipRange)
        /\ PrefixOf(lastReq.body.ipRange) \in 24..30) =>
        LET p == PrefixOf(lastReq.body.ipRange)
            lo == IF p = 24 THEN 1 ELSE BaseLastOctet
            hi == IF p = 24 THEN 254 ELSE Min(BaseLastOctet + Pow2(32 - p) - 1, 254)
            ips == runs[Solo].ipsToScan
        IN  /\ Len(ips) = (IF hi < lo THEN 0 ELSE hi - lo + 1)
            /\ \A k \in 1..Len(ips) : OnBaseNetwork(ips[k], lo + k - 1)

\* 10.0.0.250/29 was accepted: eight addresses from 250 would pass 254, and
\* the candidates are 10.0.0.250 .. 10.0.0.254
C11_Witness ==
    /\ lastReq.started
    /\ lastReq.body.ipRange = WithPrefix(Quad(10, 0, 0, 250), 29)
    /\ runs[Solo].ipsToScan = [k \in 1..5 |-> Quad(10, 0, 0, 249 + k)]

\* C12: an accepted /31 gives exactly two candidates, the base IP and the
\* address whose last octet is the base's last octet plus 1, in that order;
\* the list is fixed before any socket is opened and stays as it is for the
\* whole run, whatever the hosts do (10.0.0.0/31 -> 10.0.0.0, 10.0.0.1).
C12_SlashThirtyOnePair ==
    (lastReq.started /\ HasPrefix(lastReq.body.ipRange)
        /\ PrefixOf(lastReq.body.ipRange) = 31) =>
        LET ips == runs[Solo].ipsToScan IN
        /\ Len(ips) = 2
        /\ OnBaseNetwork(ips[1], BaseLastOctet)
        /\ OnBaseNetwork(ips[2], BaseLastOctet + 1)

\* 10.0.0.0/31 was accepted and gave 10.0.0.0 and 10.0.0.1
C12_Witness ==
    /\ lastReq.started
    /\ lastReq.body.ipRange = WithPrefix(Quad(10, 0, 0, 0), 31)
    /\ runs[Solo].ipsToScan = <<Quad(10, 0, 0, 0), Quad(10, 0, 0, 1)>>

\* C13: for an accepted range without '/' and for an accepted /32 the list of
\* candidates is exactly the given address (the text before '/'), and the
\* loop runs one iteration: it never waits for a second candidate, pingHost is
\* called once, and the run ends with one host scanned.
C13_SingleCandidate ==
    (lastReq.started /\ (~HasPrefix(lastReq.body.ipRange)
                            \/ PrefixOf(lastReq.body.ipRange) = 32)) =>
        /\ runs[Solo].ipsToScan = <<Split(lastReq.body.ipRange, "/")[1]>>
        /\ runs[Solo].i = 0
        /\ runs[Solo].pc # "delay"
        /\ runs[Solo].scannedHosts = 1
        /\ Len(runs[Solo].pingLog) <= 1
        /\ Completed(Solo) =>
              /\ Len(runs[Solo].pingLog) = 1
              /\ runs[Solo].pingLog[1].ip = Split(lastReq.body.ipRange, "/")[1]

\* the bare address 10.0.0.7 was scanned, found alive and saved, and the run
\* has ended after that one iteration
C13_Witness ==
    /\ Completed(Solo)
    /\ lastReq.body.ipRange = Quad(10, 0, 0, 7)
    /\ runs[Solo].ipsToScan = <<Quad(10, 0, 0, 7)>>
    /\ Len(runs[Solo].pingLog) = 1 /\ runs[Solo].pingLog[1].alive
    /\ Len(store) = 1 /\ store[1].ipAddress = Quad(10, 0, 0, 7)

\* C14: pingHost returns true exactly when at least one of the 16 ports of
\* its list accepts a connection, wherever the port is in the list: it
\* returns true at the first port in list order that accepts, and false only
\* after the probe of every one of the 16 ports has timed out or failed.
C14_PingIffSomePortAccepts ==
    [][\A r \in {Solo} :
        Len(runs'[r].pingLog) > Len(runs[r].pingLog) =>
            LET result == runs'[r].pingLog[Len(runs'[r].pingLog)]
                idx == runs[r].host.portIdx
                accepting == runs[r].host.accepting
            IN  /\ runs[r].pc = "ping"
                /\ Len(runs'[r].pingLog) = Len(runs[r].pingLog) + 1
                /\ result.ip = runs[r].ip
                /\ result.alive <=> (accepting \cap SeqToSet(PingPorts) # {})
                /\ result.alive =>
                      /\ PingPorts[idx] \in accepting
                      /\ \A j \in 1..(idx - 1) : PingPorts[j] \notin accepting
                /\ ~result.alive => idx = Len(PingPorts)]_vars

\* a host that accepts on port 445 only, the eleventh of the list, was found
\* reachable and its ports are being scanned
C14_Witness ==
    /\ runs[Solo].pc = "scanPorts"
    /\ runs[Solo].host.accepting = {445}
    /\ runs[Solo].host.isAlive
    /\ runs[Solo].pingLog[Len(runs[Solo].pingLog)].alive

StrictlyAscending(s) == \A k \in 1..(Len(s) - 1) : s[k] < s[k + 1]

\* scanPorts has returned and the host's iteration is not over
PortsReturned(r) == runs[r].pc \in {"sshBanner", "httpBanner", "saving"}

\* C15: the list scanPorts returned is strictly ascending (so without
\* duplicates), within the fixed list of 16 ports, and holds exactly the ports
\* whose connect succeeded, in whatever order the probes connected, timed out
\* or failed.
C15_ScanPortsSortedExact ==
    \A r \in {Solo} :
        PortsReturned(r) =>
            LET ports == runs[r].host.openPorts IN
            /\ StrictlyAscending(ports)
            /\ SeqToSet(ports) \subseteq SeqToSet(ScanPortList)
            /\ SeqToSet(ports) = SeqToSet(runs[r].host.connectOrder)
            /\ Len(ports) = Len(runs[r].host.connectOrder)
            /\ SeqToSet(ports) = runs[r].host.accepting \cap SeqToSet(ScanPortList)

\* the probes connected in descending order, 5985, 443, 22, and the list
\* returned is 22, 443, 5985
C15_Witness ==
    /\ PortsReturned(Solo)
    /\ runs[Solo].host.connectOrder = <<5985, 443, 22>>
    /\ runs[Solo].host.openPorts = <<22, 443, 5985>>

\* the sockets a run holds open or connecting: the probe pingHost awaits
\* (lines 4381-4384), the pending probes of scanPorts (4501-4523), the socket
\* of getBanner (4598-4630), the connection of getHttpBanner's fetch (4646)
OpenSockets(rec) ==
    IF rec.pc = "ping" THEN 1
    ELSE IF rec.pc = "scanPorts" THEN Cardinality(rec.host.pending)
    ELSE IF rec.pc = "sshBanner"
         THEN (IF rec.host.sock \in {"connecting", "open"} THEN 1 ELSE 0)
    ELSE IF rec.pc = "httpBanner" THEN 1
    ELSE 0

RECURSIVE TotalOpenSockets(_)
TotalOpenSockets(rs) ==
    IF rs = {} THEN 0
    ELSE LET r == CHOOSE x \in rs : TRUE
         IN  OpenSockets(runs[r]) + TotalOpenSockets(rs \ {r})

\* C16: at every moment the scanner holds at most 16 sockets open or
\* connecting, one host's worth: the size of the port list of scanPorts.
C16_AtMostOneHostOfSockets == TotalOpenSockets(Runs) <= Len(ScanPortList)

\* within one run the bound holds
EachRunAtMostOneHostOfSockets ==
    \A r \in Runs : OpenSockets(runs[r]) <= Len(ScanPortList)

\* detectOperatingSystem has returned and the host is being saved
OsDetected(r) == runs[r].pc = "saving"

\* what the port rules alone make of the open ports and the SSH banner
PortRulesOs(ports, sshBanner) ==
    IF Has(ports, 3389) THEN "Windows"
    ELSE IF ~Has(ports, 22) THEN "Unknown"
    ELSE IF Truthy(sshBanner) /\ "Ubuntu" \in sshBanner.has THEN "Ubuntu Linux"
    ELSE IF Truthy(sshBanner) /\ "CentOS" \in sshBanner.has THEN "CentOS Linux"
    ELSE IF Truthy(sshBanner) /\ "Red Hat" \in sshBanner.has THEN "Red Hat Linux"
    ELSE "Linux/Unix"

\* the HTTP banner named IIS
SaysIIS(r) == Truthy(runs[r].host.httpBanner) /\ "IIS" \in runs[r].host.httpBanner.has

\* C17: the port rules of detectOperatingSystem are ordered.  With 3389 open
\* the OS is "Windows", the version is "Windows Server 2008 R2 or later"
\* exactly when 5985 or 5986 is open too, and no SSH banner is fetched even
\* when 22 is open; the SSH banner is fetched only with 3389 closed and 22
\* open, and then the OS (unless an IIS banner overrides it) is "Linux/Unix",
\* refined to the first of Ubuntu, CentOS, Red Hat the banner names.
C17_PortRulesOrdered ==
    \A r \in {Solo} :
        LET ports == runs[r].host.openPorts
            si == runs[r].host.hostInfo.systemInfo
        IN  /\ runs[r].pc = "sshBanner" => ~Has(ports, 3389) /\ Has(ports, 22)
            /\ (runs[r].pc = "httpBanner" \/ (OsDetected(r) /\ ~SaysIIS(r))) =>
                  si.os = PortRulesOs(ports, runs[r].host.sshBanner)
            /\ (runs[r].pc = "httpBanner" \/ OsDetected(r)) =>
                  /\ Has(ports, 3389) =>
                        /\ si.os = "Windows"
                        /\ runs[r].host.sock = "none"
                        /\ runs[r].host.sshBanner = NoText
                        /\ si.version = (IF Has(ports, 5985) \/ Has(ports, 5986)
                                         THEN "Windows Server 2008 R2 or later"
                                         ELSE "Unknown")
                  /\ ~Has(ports, 3389) /\ Has(ports, 22) =>
                        /\ runs[r].host.sock = "destroyed"
                        /\ si.version = "Unknown"

\* a host with 22, 3389 and 5986 open is being saved as Windows Server 2008 R2
\* or later, and no banner socket was opened
C17_Witness ==
    /\ OsDetected(Solo)
    /\ runs[Solo].host.openPorts = <<22, 3389, 5986>>
    /\ runs[Solo].host.hostInfo.systemInfo.os = "Windows"
    /\ runs[Solo].host.hostInfo.systemInfo.version = "Windows Server 2008 R2 or later"
    /\ runs[Solo].host.sock = "none"

\* C18: when 80 or 443 is open the HTTP banner is asked of 443 if 443 is
\* open, else of 80, and of no port otherwise.  When detectOperatingSystem has
\* returned: a banner naming IIS has set the OS to "Windows" and webServer to
\* "IIS" whatever the port rules chose; a banner naming Apache or nginx and
\* not IIS has set webServer only, the OS being what the port rules chose; in
\* every case version and architecture are those of the port rules; and with
\* none of 3389, 22, 80, 443 open OS and architecture are "Unknown".
C18_HttpBannerFrame ==
    \A r \in {Solo} :
        LET ports == runs[r].host.openPorts
            si == runs[r].host.hostInfo.systemInfo
            web == Has(ports, 80) \/ Has(ports, 443)
            b == runs[r].host.httpBanner
            rulesOs == PortRulesOs(ports, runs[r].host.sshBanner)
        IN  /\ runs[r].pc = "httpBanner" =>
                  /\ web
                  /\ runs[r].host.httpPort = (IF Has(ports, 443) THEN 443 ELSE 80)
            /\ OsDetected(r) =>
                  /\ runs[r].host.httpPort =
                        (IF Has(ports, 443) THEN 443 ELSE IF Has(ports, 80) THEN 80 ELSE 0)
                  /\ ~web => b = NoText /\ si.webServer = "absent" /\ si.os = rulesOs
                  /\ SaysIIS(r) => si.os = "Windows" /\ si.webServer = "IIS"
                  /\ (Truthy(b) /\ "IIS" \notin b.has /\ "Apache" \in b.has) =>
                        si.os = rulesOs /\ si.webServer = "Apache"
                  /\ (Truthy(b) /\ b.has \cap {"IIS", "Apache"} = {} /\ "nginx" \in b.has) =>
                        si.os = rulesOs /\ si.webServer = "nginx"
                  /\ (~Truthy(b) \/ b.has \cap {"IIS", "Apache", "nginx"} = {}) =>
                        si.os = rulesOs /\ si.webServer = "absent"
                  /\ si.architecture =
                        (IF Has(ports, 3389) \/ Has(ports, 22) THEN "x64" ELSE "Unknown")
                  /\ si.version =
                        (IF Has(ports, 3389) /\ (Has(ports, 5985) \/ Has(ports, 5986))
                         THEN "Windows Server 2008 R2 or later" ELSE "Unknown")
                  /\ (\A p \in {3389, 22, 80, 443} : ~Has(ports, p)) =>
                        si.os = "Unknown" /\ si.architecture = "Unknown"

\* a host with 22, 80 and 443 open: the SSH banner named Ubuntu, the HTTP
\* banner, asked of 443, named Apache, and the OS is still Ubuntu Linux
C18_Witness ==
    /\ OsDetected(Solo)
    /\ runs[Solo].host.openPorts = <<22, 80, 443>>
    /\ runs[Solo].host.httpPort = 443
    /\ "Apache" \in runs[Solo].host.httpBanner.has
    /\ runs[Solo].host.hostInfo.systemInfo.os = "Ubuntu Linux"
    /\ runs[Solo].host.hostInfo.systemInfo.webServer = "Apache"

\* scenario A: 10.0.0.5/32 was accepted and the host accepts on port 22 only
ScenarioA(r) ==
    /\ lastReq.started
    /\ lastReq.body.ipRange = WithPrefix(Quad(10, 0, 0, 5), 32)
    /\ runs[r].host.accepting = {22}

NamesNoDistro(t) == ~Truthy(t) \/ t.has \cap {"Ubuntu", "CentOS", "Red Hat"} = {}

\* the record is that of the live host 10.0.0.5
ScenarioARecord(rcd) ==
    /\ rcd.ipAddress = Quad(10, 0, 0, 5)
    /\ rcd.status = "online"
    /\ rcd.source = "network-scan"
    /\ OsIncludesLinux(rcd.systemInfo.os)

\* the iteration of scenario A, as long as it lasts
C19_DuringScenarioA(r) ==
    ScenarioA(r) =>
        /\ runs[r].ipsToScan = <<Quad(10, 0, 0, 5)>>
        /\ runs[r].i = 0 /\ runs[r].scannedHosts = 1
        /\ runs[r].pc \in {"ping", "dns", "scanPorts", "sshBanner", "saving"}
        /\ store = <<>>
        /\ runs[r].pc = "ping" => runs[r].discoveredHosts = 0 /\ runs[r].saveLog = <<>>
        /\ runs[r].pc \in {"dns", "scanPorts", "sshBanner"} =>
              runs[r].discoveredHosts = 1 /\ runs[r].saveLog = <<>>
        /\ runs[r].pc = "sshBanner" => runs[r].host.openPorts = <<22>>
        /\ runs[r].pc = "saving" =>
              /\ runs[r].discoveredHosts = 1
              /\ Len(runs[r].saveLog) = 1
              /\ runs[r].saveLog[1].ip = Quad(10, 0, 0, 5)
              /\ Has(runs[r].host.openPorts, 22)
              /\ ScenarioARecord(HostRecord(runs[r]))
              /\ NamesNoDistro(runs[r].host.sshBanner) =>
                    HostRecord(runs[r]).systemInfo.os = "Linux/Unix"

\* C19: for ipRange "10.0.0.5/32" and a host accepting on port 22 only, the
\* run scans one candidate, finds it alive, finds port 22 open, and calls
\* createDiscoveredHost once, with ipAddress 10.0.0.5, status "online",
\* source "network-scan" and, when the SSH banner names no distribution, OS
\* "Linux/Unix"; the step that ends the run follows that one call and leaves
\* scannedHosts = 1 and discoveredHosts = 1, in the counters and in the
\* scan_completed event, and at most that one record in the store.
C19_ScenarioA ==
    [][\A r \in {Solo} :
        /\ C19_DuringScenarioA(r)'
        /\ (ScenarioA(r) /\ Completed(r)') =>
              /\ runs[r].pc = "saving"
              /\ runs'[r].scannedHosts = 1 /\ runs'[r].discoveredHosts = 1
              /\ Len(runs'[r].pingLog) = 1
              /\ Len(runs'[r].saveLog) = 1
              /\ LET e == runs'[r].events[Len(runs'[r].events)] IN
                 e.type = "scan_completed" /\ e.totalScanned = 1 /\ e.hostsDiscovered = 1
              /\ store' \in {<<>>, <<HostRecord(runs[r])>>}
              /\ runs'[r].saveLog[1].result = "ok" => store' = <<HostRecord(runs[r])>>]_vars

\* the run of scenario A has ended: one host scanned, one discovered, and the
\* store holds 10.0.0.5, online, found by the network scan, guessed Linux/Unix
C19_Witness ==
    /\ Completed(Solo)
    /\ lastReq.body.ipRange = WithPrefix(Quad(10, 0, 0, 5), 32)
    /\ runs[Solo].scannedHosts = 1 /\ runs[Solo].discoveredHosts = 1
    /\ Len(store) = 1
    /\ store[1].ipAddress = Quad(10, 0, 0, 5)
    /\ store[1].status = "online" /\ store[1].source = "network-scan"
    /\ store[1].systemInfo.os = "Linux/Unix"

\* C20: when reverse DNS was not requested, failed or returned no name, the
\* hostname of the record handed to createDiscoveredHost is null.
C20_NullHostnameRecorded ==
    \A r \in {Solo} :
        (runs[r].pc = "saving" /\ runs[r].host.hostInfo.hostname = Null) =>
            HostRecord(runs[r]).hostname = Null

\* a failed or empty reverse lookup is followed by the port scan of the same
\* host, with hostInfo.hostname still null
DnsFailureNotFatal ==
    [][\A r \in {Solo} :
        (runs[r].pc = "dns" /\ runs'[r] # runs[r]) =>
            /\ runs'[r].pc = "scanPorts"
            /\ runs'[r].ip = runs[r].ip
            /\ runs'[r].host.hostInfo.hostname \in {Null, <<"s", "r", "v">>}]_vars

\* the channel the placeholders are to name for a list of open ports
RequiredChannel(ports) ==
    IF Has(ports, 161) THEN "via SNMP"
    ELSE IF Has(ports, 5985) \/ Has(ports, 5986) THEN "via WMI"
    ELSE IF Has(ports, 22) THEN "via SSH"
    ELSE "not available"

\* C21: for every list of open ports scanPorts returned, the USB, the
\* serial-number and the installed-software placeholder name the channel SNMP
\* if 161 is open, else WMI if 5985 or 5986 is open, else SSH if 22 is open,
\* else "not available".
C21_PlaceholderChannel ==
    \A r \in {Solo} :
        runs[r].pc = "saving" =>
            LET o == runs[r].scanDetails.scanOptions
                info == runs[r].host.hostInfo
                channel == RequiredChannel(runs[r].host.openPorts)
            IN  /\ o.scanForUSB => info.hardwareDetails.usb = channel
                /\ o.scanForSerialNumbers => info.hardwareDetails.serialNumbers = channel
                /\ o.scanForInstalledSoftware =>
                      info.systemInfo.installedSoftware.available = channel

Failed(r) == runs[r].pc = "failed"

CountEvents(ev, type) == Cardinality({k \in 1..Len(ev) : ev[k].type = type})

\* C22: when an exception escapes the per-host handling, the step that
\* catches it sends one scan_error event carrying the exception's message and
\* leaves the store as it is; the run has then stopped: it takes no further
\* step, its events hold exactly one scan_error, as the last event, and no
\* scan_completed, and the store keeps every host the run had persisted.
C22_EscapedExceptionEndsRun ==
    [][\A r \in {Solo} :
        /\ (Failed(r)' /\ ~Failed(r)) =>
              /\ \E message \in ThrownMessages :
                    runs'[r].events =
                        Append(runs[r].events, [type |-> "scan_error", error |-> message])
              /\ CountEvents(runs'[r].events, "scan_error") = 1
              /\ CountEvents(runs'[r].events, "scan_completed") = 0
              /\ runs'[r].saveLog = runs[r].saveLog
              /\ store' = store
              /\ [k \in 1..Len(store') |-> store'[k].ipAddress] = SavedIps(runs'[r].saveLog)
        /\ Failed(r) => runs'[r] = runs[r] /\ store' = store]_vars

\* the run was aborted before its third candidate: the first two hosts were
\* persisted and are still in the store, and the last event is scan_error
C22_Witness ==
    /\ Failed(Solo)
    /\ Len(runs[Solo].ipsToScan) = 3 /\ runs[Solo].scannedHosts = 2
    /\ Len(store) = 2
    /\ runs[Solo].events[Len(runs[Solo].events)].type = "scan_error"

LoopEvents(ev) == SelectSeq(ev, IsLoopProgress)

\* the step ends the iteration of a candidate: the progress update of lines
\* 4322-4331 has been passed
EndsIteration(r) ==
    /\ runs[r].pc \in {"ping", "saving"}
    /\ runs'[r].pc \in {"delay", "completed"}

\* C23: the iteration of the k-th of n candidates sends a scan_progress event
\* with progress, scannedHosts, discoveredHosts and currentIp exactly when k
\* is a multiple of 5, or floor(100 * k / n) is a multiple of 10, or k = n;
\* the event of the last candidate carries progress 100; no other step sends
\* such an event.
C23_ProgressCadence ==
    [][\A r \in {Solo} :
        LET k == runs[r].scannedHosts
            n == Len(runs[r].ipsToScan)
            before == LoopEvents(runs[r].events)
            after == LoopEvents(runs'[r].events)
            due == k % 5 = 0 \/ ((100 * k) \div n) % 10 = 0 \/ k = n
        IN  /\ (EndsIteration(r) /\ due) =>
                  /\ after = Append(before,
                                [type |-> "scan_progress", progress |-> runs[r].progress,
                                 scannedHosts |-> k,
                                 discoveredHosts |-> runs[r].discoveredHosts,
                                 currentIp |-> runs[r].ip])
                  /\ k = n => after[Len(after)].progress = 100
            /\ ~(EndsIteration(r) /\ due) => after = before]_vars

\* a run of 128 candidates has ended: an event was sent for the 13th, where
\* 13 is no multiple of 5 and floor(1300 / 128) = 10, and the event of the
\* last candidate carries progress 100
C23_Witness ==
    /\ Completed(Solo) /\ Len(runs[Solo].ipsToScan) = 128
    /\ LET ev == LoopEvents(runs[Solo].events) IN
       /\ \E j \in 1..Len(ev) : ev[j].scannedHosts = 13 /\ ev[j].progress = 10
       /\ \A j \in 1..Len(ev) : ev[j].scannedHosts # 12
       /\ ev[Len(ev)].scannedHosts = 128 /\ ev[Len(ev)].progress = 100

\* the 1-based position in pingHost's list of the first port the host
\* accepts on, the length of the list if there is none
FirstOpenPosition(accepting) ==
    IF \E j \in 1..Len(PingPorts) : PingPorts[j] \in accepting
    THEN CHOOSE j \in 1..Len(PingPorts) :
            /\ PingPorts[j] \in accepting
            /\ \A m \in 1..(j - 1) : PingPorts[m] \notin accepting
    ELSE Len(PingPorts)

\* C24: pingHost probes one port at a time in the order 80, 443, 22, 3389,
\* 21, 23, 25, 53, 135, 139, 445, 993, 995, 1433, 3306, 5432: the probe in
\* flight is the only one, every port before it was probed and failed, the
\* next probe is that of the next port and starts when the one in flight has
\* failed, and pingHost returns at the first probe that connects, so that the
\* number of probes is the position of the first open port (16 if none).
C24_PingSequential ==
    [][\A r \in {Solo} :
        /\ PingPorts = <<80, 443, 22, 3389, 21, 23, 25, 53, 135, 139, 445, 993, 995,
                         1433, 3306, 5432>>
        /\ runs'[r].pc = "ping" =>
              /\ runs'[r].host.portIdx \in 1..Len(PingPorts)
              /\ \A j \in 1..(runs'[r].host.portIdx - 1) :
                    PingPorts[j] \notin runs'[r].host.accepting
        /\ (runs[r].pc = "ping" /\ runs'[r].pc = "ping") =>
              /\ runs'[r].host.portIdx = runs[r].host.portIdx + 1
              /\ PingPorts[runs[r].host.portIdx] \notin runs[r].host.accepting
        /\ (runs[r].pc = "ping" /\ runs'[r].pc # "ping") =>
              runs[r].host.portIdx = FirstOpenPosition(runs[r].host.accepting)
        /\ (runs'[r].pc = "ping" /\ runs[r].pc # "ping") => runs'[r].host.portIdx = 1]_vars

\* a host that accepts on port 22 only was found reachable by the third probe
C24_Witness ==
    /\ runs[Solo].pc = "scanPorts"
    /\ runs[Solo].host.accepting = {22}
    /\ runs[Solo].host.isAlive
    /\ runs[Solo].host.portIdx = 3

\* nothing of a candidate is under way
BetweenCandidates(r) ==
    /\ runs[r].host = NoHostLocals
    /\ Len(runs[r].pingLog) = runs[r].i + 1
    /\ \A k \in 1..Len(runs[r].saveLog) : runs[r].saveLog[k].result # "pending"

\* C25: the candidates of a run are processed one at a time in list order.
\* The liveness check of a candidate starts either with the run (the first
\* candidate) or when the delay after the previous candidate is over; the
\* delay starts only when liveness check, info gathering, save and progress
\* update of a candidate that is not the last are done; the run ends from the
\* iteration of the last candidate, without a delay.
C25_OneCandidateAtATime ==
    [][\A r \in {Solo} :
        /\ (runs'[r].pc = "ping" /\ runs[r].pc # "ping") =>
              /\ runs[r].pc \in {"idle", "delay"}
              /\ runs'[r].i = (IF runs[r].pc = "idle" THEN 0 ELSE runs[r].i + 1)
              /\ runs'[r].ip = runs'[r].ipsToScan[runs'[r].i + 1]
              /\ Len(runs'[r].pingLog) = runs'[r].i
        /\ (runs'[r].pc = "delay" /\ runs[r].pc # "delay") =>
              /\ runs[r].pc \in {"ping", "saving"}
              /\ runs'[r].i = runs[r].i
              /\ runs'[r].i < Len(runs'[r].ipsToScan) - 1
              /\ BetweenCandidates(r)'
        /\ runs[r].pc = "delay" => runs'[r].pc \in {"delay", "ping"}
        /\ (Completed(r)' /\ ~Completed(r)) =>
              /\ runs[r].pc \in {"ping", "saving", "idle"}
              /\ runs[r].pc # "idle" => runs[r].i = Len(runs[r].ipsToScan) - 1
              /\ \A k \in 1..Len(runs'[r].pingLog) :
                    /\ runs'[r].pingLog[k].i = k - 1
                    /\ runs'[r].pingLog[k].ip = runs'[r].ipsToScan[k]
              /\ Len(runs'[r].pingLog) = Len(runs'[r].ipsToScan)
        /\ (runs'[r].pc \notin {"idle", "completed", "failed"}) =>
              /\ runs'[r].i \in {runs[r].i, runs[r].i + 1}
              /\ runs'[r].ipsToScan = (IF runs[r].pc = "idle" THEN runs'[r].ipsToScan
                                       ELSE runs[r].ipsToScan)]_vars

\* the run waits between its second and its third candidate: the first was
\* dead, the second was alive and its save has returned
C25_Witness ==
    /\ runs[Solo].pc = "delay" /\ runs[Solo].i = 1
    /\ Len(runs[Solo].ipsToScan) = 3
    /\ Len(runs[Solo].pingLog) = 2
    /\ ~runs[Solo].pingLog[1].alive /\ runs[Solo].pingLog[2].alive
    /\ Len(runs[Solo].saveLog) = 1 /\ runs[Solo].saveLog[1].result = "ok"

\* C26: whatever the sizes and the timing of the chunks received, getBanner
\* resolves with null or with a text of 1 to 1024 characters, and while it
\* has not resolved the accumulated text is at most 1024 characters long; the
\* step in which the accumulated text passes 1024 characters destroys the
\* socket and resolves with the first 1024 characters.
C26_BannerCapped ==
    [][\A r \in {Solo} :
        LET got == runs'[r].host.sshBanner IN
        /\ got = NoText \/ (~got.null /\ got.len \in 1..BannerCap)
        /\ runs'[r].pc = "sshBanner" => runs'[r].host.banner.len <= BannerCap
        /\ (runs[r].pc = "sshBanner" /\ runs'[r].pc # "sshBanner") =>
              /\ runs'[r].host.sock = "destroyed"
              /\ got = NoText \/ got = runs[r].host.banner \/ got.len = BannerCap
              /\ got.len > runs[r].host.banner.len => got.len = BannerCap]_vars

\* 1023 characters had been received when a further chunk came: getBanner
\* resolved with 1024 characters and the socket is destroyed
C26_Witness ==
    /\ runs[Solo].pc = "saving"
    /\ runs[Solo].host.banner.len = BannerCap - 1
    /\ runs[Solo].host.sshBanner.len = BannerCap
    /\ runs[Solo].host.sock = "destroyed"

IsTerminal(e) == e.type \in {"scan_completed", "scan_error"}

\* C27: a run sends at most one terminal event: scan_completed and scan_error
\* together occur at most once among its events, the terminal event is the
\* last event, and once it is sent the run sends nothing more.
C27_OneTerminalEvent ==
    [][\A r \in Runs :
        LET ev == runs'[r].events IN
        /\ CountEvents(ev, "scan_completed") + CountEvents(ev, "scan_error") <= 1
        /\ \A k \in 1..Len(ev) : IsTerminal(ev[k]) => k = Len(ev)
        /\ (Completed(r)' \/ Failed(r)') <=> (Len(ev) > 0 /\ IsTerminal(ev[Len(ev)]))
        /\ Completed(r)' => ev[Len(ev)].type = "scan_completed"
        /\ Failed(r)' => ev[Len(ev)].type = "scan_error"
        /\ (Completed(r) \/ Failed(r)) => runs'[r].events = runs[r].events]_vars

\* a run of two candidates has completed: scan_completed is its last event,
\* after the progress events of the two hosts and the flagged progress event
C27_Witness ==
    /\ Completed(Solo) /\ Len(runs[Solo].ipsToScan) = 2
    /\ LET ev == runs[Solo].events IN
       /\ Len(ev) = 4
       /\ IsLoopProgress(ev[1]) /\ IsLoopProgress(ev[2]) /\ IsFinalProgress(ev[3])
       /\ ev[4].type = "scan_completed"
       /\ CountEvents(ev, "scan_completed") = 1 /\ CountEvents(ev, "scan_error") = 0

ProgressEvents(ev) == SelectSeq(ev, LAMBDA e : e.type = "scan_progress")

\* C28: the progress values of the scan_progress events of a run are integers
\* in 0..100 and never decrease from one event to the next; the progress of
\* an event sent in the loop is floor(100 * scannedHosts / n) for the n
\* candidates of the run; a run over an empty list sends only the flagged
\* event with progress 100 and scannedHosts 0 and the summary.
C28_ProgressValues ==
    \A r \in {Solo} :
        LET n == Len(runs[r].ipsToScan)
            ev == ProgressEvents(runs[r].events)
        IN  /\ \A k \in 1..Len(ev) :
                  /\ ev[k].progress \in 0..100
                  /\ k > 1 => ev[k - 1].progress <= ev[k].progress
                  /\ IsLoopProgress(ev[k]) =>
                        ev[k].progress = (100 * ev[k].scannedHosts) \div n
            /\ (Completed(r) /\ n = 0) =>
                  /\ runs[r].scannedHosts = 0 /\ runs[r].progress = 0
                  /\ runs[r].pingLog = <<>>
                  /\ Len(runs[r].events) = 2
                  /\ IsFinalProgress(runs[r].events[1])
                  /\ runs[r].events[1].progress = 100
                  /\ runs[r].events[1].scannedHosts = 0
                  /\ runs[r].events[2].type = "scan_completed"

\* a run of 100 candidates has ended; it sent events for the 30th and the
\* 60th host with progress 30 and 60, and none for the 29th, whose computed
\* percentage is 28
C28_Witness ==
    /\ Completed(Solo) /\ Len(runs[Solo].ipsToScan) = 100
    /\ LET ev == LoopEvents(runs[Solo].events) IN
       /\ \E j \in 1..Len(ev) : ev[j].scannedHosts = 30 /\ ev[j].progress = 30
       /\ \E j \in 1..Len(ev) : ev[j].scannedHosts = 60 /\ ev[j].progress = 60
       /\ \A j \in 1..Len(ev) : ev[j].scannedHosts # 29

PairwiseDistinct(s) == \A j, k \in 1..Len(s) : s[j] = s[k] => j = k

\* C29: every range the handler accepts expands to a non-empty list of
\* pairwise distinct candidates, each a dotted quad of four octets 0..255.
C29_CandidatesWellFormed ==
    lastReq.started =>
        LET ips == runs[Solo].ipsToScan IN
        /\ Len(ips) >= 1
        /\ PairwiseDistinct(ips)
        /\ \A k \in 1..Len(ips) : WellFormedQuad(ips[k])

AliveIps(log) ==
    LET alive == SelectSeq(log, LAMBDA p : p.alive)
    IN  [k \in 1..Len(alive) |-> alive[k].ip]

\* C30: when a run has completed, the hostsDiscovered of its scan_completed
\* event is the number of records the run persisted, and the run called
\* createDiscoveredHost once for each candidate found alive, in order, and
\* never twice for one IP.
C30_DiscoveredEqualsPersisted ==
    Completed(Solo) =>
        LET last == runs[Solo].events[Len(runs[Solo].events)]
            attempts == [k \in 1..Len(runs[Solo].saveLog) |-> runs[Solo].saveLog[k].ip]
        IN  /\ last.type = "scan_completed"
            /\ last.hostsDiscovered = CountSaves(runs[Solo].saveLog, "ok")
            /\ last.hostsDiscovered = Len(store)
            /\ attempts = AliveIps(runs[Solo].pingLog)
            /\ PairwiseDistinct(attempts)

\* the part of C30 that speaks of the calls only
AttemptsOncePerAliveCandidate ==
    Completed(Solo) =>
        LET attempts == [k \in 1..Len(runs[Solo].saveLog) |-> runs[Solo].saveLog[k].ip]
        IN  /\ attempts = AliveIps(runs[Solo].pingLog)
            /\ PairwiseDistinct(attempts)
            /\ runs[Solo].events[Len(runs[Solo].events)].hostsDiscovered = Len(attempts)

=============================================================================
